---- MODULE Spec2Model ----
(***************************************************************************)
(* Model of the mutation-propagation engine of sqlatypemodel                *)
(* (src/sqlatypemodel/mixin/): tracked records, trackable containers, the   *)
(* graph walker (wrapping.py), the propagation protocol (events.py), the    *)
(* batching controller (events.py) and the recovery hook (mixin.py,         *)
(* serialization.py).                                                       *)
(*                                                                          *)
(* The heap is a finite array of container slots; a value is a tagged pair  *)
(* [t, n]: None, MISSING, an atomic scalar, a reference to a container, or  *)
(* a reference to a record.  An owner-link table (_parents) is an           *)
(* insertion-ordered sequence of [ref, key] entries, ref being the owner    *)
(* object itself (t = "obj" / "rec"), the owner's MutableState token        *)
(* (t = "tok") or an InstanceState of the persistence layer (t = "sa").     *)
(***************************************************************************)
EXTENDS Naturals, Integers, Sequences, FiniteSets, TLC

\* ------------------------------------------------------------------ bounds
NumRecs == 2
NumFields == 2
MaxObj == 5
MaxLen == 2
MaxNest == 2
MaxOps == 3
PropFuel == 8
CountCap == 3
SmallDepth == 0

\* ------------------------------------------------------- program constants
DEFAULT_MAX_NESTING_DEPTH == 100
max_failures == 10
max_retries == 3

Recs == 1..NumRecs
Fields == 1..NumFields
ObjIds == 1..MaxObj
DictKeys == {1, 2}
\* scalars: 1, 2, 3 and a second object equal to 1
EqStep == 10
Atoms == {1, 2, 3, 1 + EqStep}
Ents == {1}
\* recursion budget of one traversal: every container and record is entered at most once
WrapFuel == MaxObj + NumRecs + 1

\* ------------------------------------------------------------------ values
NoneV == [t |-> "none", n |-> 0]
MISSING == [t |-> "missing", n |-> 0]
AtomV(a) == [t |-> "atom", n |-> a]
ObjV(i) == [t |-> "obj", n |-> i]
RecV(r) == [t |-> "rec", n |-> r]
TokV(r) == [t |-> "tok", n |-> r]
SaV(e) == [t |-> "sa", n |-> e]
\* an object that is no scalar, container or record and whose __eq__ and __ne__ raise
OddV == [t |-> "odd", n |-> 0]

NameKey(f) == [t |-> "name", n |-> f]
IdxKey(i) == [t |-> "idx", n |-> i]
NoKey == [t |-> "none", n |-> 0]

\* truthiness of a link key (`if key:`): None and index 0 are falsy
Truthy(key) == key.t = "name" \/ (key.t = "idx" /\ key.n # 0)

\* a container slot: kind, wrapped (a Keyable wrapper, or raw), the keys and
\* items, the owner-link table; src (the raw container a wrapper was built
\* from) and restored (built by unpickling) record where the object came from
FreeObj == [kind |-> "free", wrapped |-> FALSE, keys |-> <<>>, vals |-> <<>>, par |-> <<>>,
            src |-> 0, restored |-> FALSE]

Min(a, b) == IF a < b THEN a ELSE b
Max(a, b) == IF a > b THEN a ELSE b
Bump(c) == Min(c + 1, CountCap)

VARIABLES
    objs,      \* heap: ObjIds -> container (raw list/dict/set or Keyable wrapper)
    fld,       \* record fields: Recs -> Fields -> value (the instance __dict__)
    rpar,      \* record's own _parents_store
    level,     \* _change_suppress_level
    pending,   \* _pending_change
    cfg,       \* per record: built, lazy, hashable, maxDepth (_max_nesting_depth), hook
    ent,       \* persistence-layer owners: how obj() / flag_modified behave
    held,      \* containers the calling code keeps a reference to
    stack,     \* open batch_changes() scopes of the calling thread, innermost last
    ops,       \* operations the calling code still performs
    last,      \* what the last operation did
    thr,       \* threads inside a library call: position, record, local value
    inst       \* _state_inst of each record: the thread whose token it stores, 0 when absent

vars == <<objs, fld, rpar, level, pending, cfg, ent, held, stack, ops, last, thr, inst>>

NumThreads == 2
Threads == 1..NumThreads

\* a thread that is in no library call
Idle == [pc |-> "idle", r |-> 0, reg |-> 0]

ZeroCount == [r \in Recs |-> 0]

\* The mutable world threaded through one handler.
World == [objs |-> objs, fld |-> fld, rpar |-> rpar, pend |-> pending, lvl |-> level,
          hook |-> ZeroCount, dlv |-> ZeroCount, flag |-> 0, fails |-> 0,
          desc |-> <<>>, fresh |-> {}, exc |-> "none", deep |-> FALSE,
          ran |-> 0, failed |-> {}, tries |-> 0]

Raise(w, e) == [w EXCEPT !.exc = e]
Ok(w) == w.exc = "none"

\* ------------------------------------------------------------ link tables
HasKey(par, ref) == \E i \in DOMAIN par : par[i].ref = ref

\* d[ref] = key on an insertion-ordered dictionary
PutLink(par, ref, key) ==
    IF HasKey(par, ref)
    THEN [i \in DOMAIN par |-> IF par[i].ref = ref THEN [ref |-> ref, key |-> key] ELSE par[i]]
    ELSE Append(par, [ref |-> ref, key |-> key])

ParentsOf(w, v) == IF v.t = "rec" THEN w.rpar[v.n] ELSE w.objs[v.n].par

\* hasattr(value, "_parents"): records and Keyable wrappers
HasParents(w, v) ==
    \/ v.t = "rec"
    \/ (v.t = "obj" /\ w.objs[v.n].wrapped)

\* hash(parent) as WeakKeyDictionary.__setitem__ needs it: a record whose host
\* class defines __eq__ without __hash__ is unhashable; wrappers use
\* ForceHashMixin and tokens object.__hash__.
Hashable(ref) == IF ref.t = "rec" THEN cfg[ref.n].hashable ELSE TRUE

\* value._parents[parent] = key
SetParent(w, child, ref, key) ==
    IF ~Hashable(ref) THEN Raise(w, "TypeError")
    ELSE IF child.t = "rec"
         THEN [w EXCEPT !.rpar[child.n] = PutLink(@, ref, key)]
         ELSE [w EXCEPT !.objs[child.n].par = PutLink(@, ref, key)]

\* MutableMethods._state: the record's identity token
state(r) == TokV(r)

\* MutableState.link(child, key)
link(w, r, child, key) ==
    IF ~HasParents(w, child) THEN w ELSE SetParent(w, child, state(r), key)

\* MutableState.unlink(child)
unlink(w, r, child) ==
    IF ~HasParents(w, child) THEN w
    ELSE LET keep == SelectSeq(ParentsOf(w, child), LAMBDA e : e.ref # TokV(r))
         IN IF child.t = "rec" THEN [w EXCEPT !.rpar[child.n] = keep]
            ELSE [w EXCEPT !.objs[child.n].par = keep]

\* ------------------------------------------------------------ propagation
\* the value of a statement sequence: S is the one-element set of its results
Val(S) == CHOOSE v \in S : TRUE

RECURSIVE safe_changed(_, _, _)
RECURSIVE notify_parents(_, _, _, _, _)
RECURSIVE notify_loop(_, _, _, _, _, _, _)

\* events.mark_change_or_defer: TRUE when the signal is emitted now
mark_change_or_defer(w, r) == ~(w.lvl[r] > 0)

\* BaseMutableMixin.changed, or the host's override of it
changed(w, r, fuel) ==
    IF cfg[r].hook = "raise" THEN Raise([w EXCEPT !.hook[r] = Bump(@)], "HookError")
    ELSE IF ~mark_change_or_defer(w, r)
         THEN [w EXCEPT !.hook[r] = Bump(@), !.pend[r] = TRUE]
    ELSE safe_changed([w EXCEPT !.hook[r] = Bump(@)], RecV(r), fuel)

\* the call changed_method() on a direct owner
call_changed(w, ref, fuel) ==
    IF ref.t = "rec" THEN changed(w, ref.n, fuel)
    ELSE safe_changed(w, ref, fuel)

\* MutableState has no get_parent method (state.py defines __init__, link and
\* unlink only): the attribute lookup raises.
get_parent(w) == Raise(w, "AttributeError")

\* the obj() branch: instance = obj(); flag_modified(instance, key).  The
\* handler logs the unbound name e, which raises in turn.
flag_via_obj(w, e, key) ==
    IF ent[e] = "dead" THEN w
    ELSE IF ent[e] = "objRaises" THEN Raise(w, "UnboundLocalError")
    ELSE IF ~Truthy(key) THEN w
    ELSE IF ent[e] = "flagRaises" THEN Raise(w, "UnboundLocalError")
    ELSE [w EXCEPT !.flag = Bump(@)]

\* the direct best-effort branch: flag_modified(parent, key); only
\* InvalidRequestError is caught, and its handler logs the unbound name e.
flag_direct(w, e, key) ==
    IF ~Truthy(key) THEN w
    ELSE IF ent[e] = "flagRaises" THEN Raise(w, "UnboundLocalError")
    ELSE [w EXCEPT !.flag = Bump(@)]

\* one entry (parent_ref, key) of the loop over parents_snapshot
notify_one(w, ref, key, fuel) ==
    IF ref.t = "tok" THEN get_parent(w)
    ELSE IF ref.t = "sa" THEN flag_via_obj(w, ref.n, key)
    ELSE IF ref.t = "plain" THEN flag_direct(w, ref.n, key)
    ELSE call_changed(w, ref, fuel)

\* a loop that never stops at the ceiling
ceiling_reached_never(failure_count, limit) == FALSE

\* `if failure_count >= max_failures: break`
ceiling_reached(failure_count, limit) == failure_count >= limit

\* the loop over parents_snapshot (events.py 62-107) with the ceiling `limit`:
\* an exception of changed_method() is counted and the loop continues, any
\* other exception leaves safe_changed.  For the outermost call under
\* observation (top) the world records the index of the last entry the loop
\* processed (ran) and the indices whose delivery was counted as failed.
notify_loop(w, snap, i, failure_count, limit, top, fuel) ==
    IF i > Len(snap) \/ ceiling_reached(failure_count, limit) THEN w
    ELSE Val({ IF Ok(w1) THEN notify_loop(w1, snap, i + 1, failure_count, limit, top, fuel)
               ELSE IF snap[i].ref.t \in {"tok", "sa", "plain"} THEN w1
               ELSE notify_loop([w1 EXCEPT !.exc = "none", !.fails = Bump(@),
                                           !.failed = IF top THEN @ \cup {i} ELSE @],
                                snap, i + 1, failure_count + 1, limit, top, fuel)
             : w1 \in {notify_one(IF top THEN [w EXCEPT !.ran = i] ELSE w,
                                  snap[i].ref, snap[i].key, fuel)} })

\* the loop of a call that leaves max_failures at its default
notify_parents(w, snap, i, failure_count, fuel) ==
    notify_loop(w, snap, i, failure_count, max_failures, FALSE, fuel)

\* events.safe_changed(self, max_failures=limit) called by the application
safe_changed_upto(w, x, limit, fuel) ==
    Val({ notify_loop(w1, ParentsOf(w1, x), 1, 0, limit, TRUE, fuel - 1)
        : w1 \in {IF x.t = "rec" THEN [w EXCEPT !.dlv[x.n] = Bump(@)] ELSE w} })

\* events.safe_changed(self)
safe_changed(w, x, fuel) ==
    IF fuel = 0 THEN Raise([w EXCEPT !.deep = TRUE], "RecursionError")
    ELSE Val({ notify_parents(w1, ParentsOf(w1, x), 1, 0, fuel - 1)
             : w1 \in {IF x.t = "rec" THEN [w EXCEPT !.dlv[x.n] = Bump(@)] ELSE w} })

\* ---------------------------------------------------------------- walker
IsRaw(w, v) == v.t = "obj" /\ ~w.objs[v.n].wrapped
IsKeyable(w, v) == v.t = "obj" /\ w.objs[v.n].wrapped

\* wrapping.is_mutable_and_untracked.  For a value that has _parents the test
\* is `getattr(obj, "changed", None) is not events.safe_changed`: obj.changed is
\* a bound method object, never the function itself, so the test is true.
is_mutable_and_untracked(w, v) ==
    IF v.t \in {"none", "atom", "missing"} THEN FALSE
    ELSE IF HasParents(w, v) THEN TRUE
    ELSE IsRaw(w, v)

\* getattr(parent, "_max_nesting_depth", DEFAULT_MAX_NESTING_DEPTH): only a
\* record carries the attribute
max_depth(parent) ==
    IF parent.t = "rec" THEN cfg[parent.n].maxDepth ELSE DEFAULT_MAX_NESTING_DEPTH

FreeIds(w) == {i \in ObjIds : w.objs[i].kind = "free"}
Lowest(S) == CHOOSE i \in S : \A j \in S : i <= j

\* every item linked without a key
ElemKey_none(o, i) == NoKey

\* key under which element i of a container is linked
ElemKey(o, i) ==
    IF o.kind = "list" THEN IdxKey(i - 1)
    ELSE IF o.kind = "dict" THEN NameKey(o.keys[i])
    ELSE NoKey

Res(w, val, seen) == [w |-> w, val |-> val, seen |-> seen]

\* set.add(elem) on the contents of a set
SetAddVals(vals, v) == IF \E i \in DOMAIN vals : vals[i] = v THEN vals ELSE Append(vals, v)

\* `if wrapped is not attr_val: object.__setattr__(value, attr_name, wrapped)`
StoreField(w, r, f, old, new) ==
    IF new # old THEN [w EXCEPT !.fld[r][f] = new] ELSE w

\* an item loop that puts a new object into every slot
StoreItem_boxed(w, id, i, old, new) ==
    [w EXCEPT !.objs[id].vals[i] = IF new.t = "atom" THEN NoneV ELSE new]

\* `if new_val is not item: list.__setitem__(wrapped, i, new_val)`
StoreItem(w, id, i, old, new) ==
    IF new # old THEN [w EXCEPT !.objs[id].vals[i] = new] ELSE w

\* KeyableMutableList(value) / KeyableMutableDict(value): a new wrapper holding
\* the items of the raw container; KeyableMutableSet(): a new empty wrapper
NewWrapper(w, id, value, vals) ==
    [w EXCEPT !.objs[id] = [kind |-> w.objs[value.n].kind, wrapped |-> TRUE,
                            keys |-> IF vals = <<>> THEN <<>> ELSE w.objs[value.n].keys,
                            vals |-> vals, par |-> <<>>, src |-> value.n,
                            restored |-> FALSE],
              !.fresh = @ \cup {id},
              !.desc = Append(@, value)]

\* a predicate that skips no name
ignore_attr_name_none(r, attr_name) == FALSE

\* inspection.ignore_attr_name(cls, attr_name): the names of the record's class
\* that are reserved, carry a reserved prefix, or are properties or callables
ignore_attr_name(r, attr_name) == attr_name \in cfg[r].skip

RECURSIVE wrap_mutable(_, _, _, _, _, _, _)
RECURSIVE wrap_items(_, _, _, _, _, _)
RECURSIVE wrap_set_items(_, _, _, _, _, _, _)
RECURSIVE wrap_attrs(_, _, _, _, _, _, _)

\* a short circuit that returns the container without the owner link
rewrap_mutable_collection_unlinked(w, parent, value, key) == w

\* _rewrap_mutable_collection
rewrap_mutable_collection(w, parent, value, key) == SetParent(w, value, parent, key)

\* _wrap_trackable: link, then wrap every attribute of the record
wrap_trackable(w, parent, value, seen, depth, key, fuel) ==
    Val({ IF ~Ok(w1) THEN Res(w1, value, seen)
          ELSE wrap_attrs(w1, value, w1.fld[value.n], 1, seen, depth, fuel)
        : w1 \in {SetParent([w EXCEPT !.desc = Append(@, value)], value, parent, key)} })

\* the attribute loop of _wrap_trackable over the snapshot attrs
wrap_attrs(w, value, attrs, f, seen, depth, fuel) ==
    IF f > NumFields THEN Res(w, value, seen)
    ELSE IF attrs[f] = MISSING \/ ignore_attr_name(value.n, f)
         THEN wrap_attrs(w, value, attrs, f + 1, seen, depth, fuel)
    ELSE Val({ IF ~Ok(r.w) THEN Res(r.w, value, r.seen)
               ELSE wrap_attrs(StoreField(r.w, value.n, f, attrs[f], r.val),
                               value, attrs, f + 1, r.seen, depth, fuel)
             : r \in {wrap_mutable(w, value, attrs[f], seen, depth, NameKey(f), fuel)} })

\* _wrap_list / _wrap_dict: copy into a Keyable wrapper, link, wrap the items
wrap_list(w, parent, value, seen, depth, key, fuel) ==
    IF FreeIds(w) = {} THEN Res(Raise(w, "OutOfHeap"), value, seen)
    ELSE Val({ IF ~Ok(w2) THEN Res(w2, value, seen)
               ELSE wrap_items(w2, Lowest(FreeIds(w)), 1, seen, depth, fuel)
             : w2 \in {SetParent(NewWrapper(w, Lowest(FreeIds(w)), value, w.objs[value.n].vals),
                                 ObjV(Lowest(FreeIds(w))), parent, key)} })

wrap_dict(w, parent, value, seen, depth, key, fuel) ==
    wrap_list(w, parent, value, seen, depth, key, fuel)

\* the item loop of _wrap_list / _wrap_dict
wrap_items(w, id, i, seen, depth, fuel) ==
    IF i > Len(w.objs[id].vals) THEN Res(w, ObjV(id), seen)
    ELSE Val({ IF ~Ok(r.w) THEN Res(r.w, ObjV(id), r.seen)
               ELSE wrap_items(StoreItem(r.w, id, i, w.objs[id].vals[i], r.val),
                               id, i + 1, r.seen, depth, fuel)
             : r \in {wrap_mutable(w, ObjV(id), w.objs[id].vals[i], seen, depth,
                                   ElemKey(w.objs[id], i), fuel)} })

\* _wrap_set: an empty Keyable set, linked, then wrapped.add(...) per item;
\* MutableSet.add calls self.changed() after every insertion
wrap_set(w, parent, value, seen, depth, key, fuel) ==
    IF FreeIds(w) = {} THEN Res(Raise(w, "OutOfHeap"), value, seen)
    ELSE Val({ IF ~Ok(w2) THEN Res(w2, value, seen)
               ELSE wrap_set_items(w2, Lowest(FreeIds(w)), w.objs[value.n].vals, 1,
                                   seen, depth, fuel)
             : w2 \in {SetParent(NewWrapper(w, Lowest(FreeIds(w)), value, <<>>),
                                 ObjV(Lowest(FreeIds(w))), parent, key)} })

\* wrapped.add(item): the insertion, then the wrapper's changed()
set_add(w, id, item) ==
    safe_changed([w EXCEPT !.objs[id].vals = SetAddVals(@, item)], ObjV(id), PropFuel)

wrap_set_items(w, id, items, i, seen, depth, fuel) ==
    IF i > Len(items) THEN Res(w, ObjV(id), seen)
    ELSE Val({ IF ~Ok(r.w) THEN Res(r.w, ObjV(id), r.seen)
               ELSE Val({ IF ~Ok(w3) THEN Res(w3, ObjV(id), r.seen)
                          ELSE wrap_set_items(w3, id, items, i + 1, r.seen, depth, fuel)
                        : w3 \in {set_add(r.w, id, r.val)} })
             : r \in {wrap_mutable(w, ObjV(id), items[i], seen, depth, NoKey, fuel)} })

\* wrap_mutable without the `if obj_id in seen` return
wrap_mutable_unseen(w, parent, value, seen, depth, key, fuel) ==
    IF fuel = 0 THEN Res(Raise(w, "Diverged"), value, seen)
    ELSE IF ~is_mutable_and_untracked(w, value) THEN Res(w, value, seen)
    ELSE IF depth > max_depth(parent) THEN Res(w, value, seen)
    ELSE IF IsKeyable(w, value)
         THEN Res(rewrap_mutable_collection(w, parent, value, key), value, seen \cup {value})
    ELSE IF HasParents(w, value)
         THEN wrap_trackable(w, parent, value, seen \cup {value}, depth + 1, key, fuel - 1)
    ELSE IF w.objs[value.n].kind = "list"
         THEN wrap_list(w, parent, value, seen \cup {value}, depth + 1, key, fuel - 1)
    ELSE IF w.objs[value.n].kind = "dict"
         THEN wrap_dict(w, parent, value, seen \cup {value}, depth + 1, key, fuel - 1)
    ELSE wrap_set(w, parent, value, seen \cup {value}, depth + 1, key, fuel - 1)

\* wrapping.wrap_mutable(parent, value, seen, depth, key)
wrap_mutable(w, parent, value, seen, depth, key, fuel) ==
    IF fuel = 0 THEN Res(Raise(w, "Diverged"), value, seen)
    ELSE IF ~is_mutable_and_untracked(w, value) THEN Res(w, value, seen)
    ELSE IF value \in seen
         THEN Res(IF HasParents(w, value) THEN SetParent(w, value, parent, key) ELSE w,
                  value, seen)
    ELSE IF depth > max_depth(parent) THEN Res(w, value, seen)
    ELSE IF IsKeyable(w, value)
         THEN Res(rewrap_mutable_collection(w, parent, value, key), value, seen \cup {value})
    ELSE IF HasParents(w, value)
         THEN wrap_trackable(w, parent, value, seen \cup {value}, depth + 1, key, fuel - 1)
    ELSE IF w.objs[value.n].kind = "list"
         THEN wrap_list(w, parent, value, seen \cup {value}, depth + 1, key, fuel - 1)
    ELSE IF w.objs[value.n].kind = "dict"
         THEN wrap_dict(w, parent, value, seen \cup {value}, depth + 1, key, fuel - 1)
    ELSE wrap_set(w, parent, value, seen \cup {value}, depth + 1, key, fuel - 1)

\* --------------------------------------------------------------- handlers
RECURSIVE scan_and_wrap_fields(_, _, _, _)
RECURSIVE scan_attrs(_, _, _, _, _, _)

\* an exception the model raises for its own bounds is never swallowed
Swallow(w) == IF w.exc \in {"none", "Diverged", "OutOfHeap"} THEN w ELSE [w EXCEPT !.exc = "none"]

\* a restore that walks the fields of lazy records too
restore_tracking_eager(w, r, seen, fuel) ==
    Val({ Res(Swallow(s.w), RecV(r), s.seen)
        : s \in {scan_and_wrap_fields(w, r, seen, fuel)} })

\* MutableMixin._restore_tracking / LazyMutableMixin._restore_tracking
restore_tracking(w, r, seen, fuel) ==
    IF cfg[r].lazy THEN Res(w, RecV(r), seen)
    ELSE Val({ Res(Swallow(s.w), RecV(r), s.seen)
             : s \in {scan_and_wrap_fields(w, r, seen, fuel)} })

\* scan_and_wrap_fields, after wrap_mutable returned wrapped: the attribute is
\* replaced, the owner link set again, a nested record restored
scan_store(w, parent, f, attr_value, wrapped, seen, fuel) ==
    Val({ IF ~Ok(w3) THEN Res(w3, wrapped, seen)
          ELSE IF wrapped.t = "rec" THEN restore_tracking(w3, wrapped.n, seen, fuel - 1)
          ELSE Res(w3, wrapped, seen)
        : w3 \in {IF HasParents(w, wrapped)
                  THEN SetParent(StoreField(w, parent, f, attr_value, wrapped),
                                 wrapped, RecV(parent), NameKey(f))
                  ELSE StoreField(w, parent, f, attr_value, wrapped)} })

\* the body of the try block of scan_and_wrap_fields for one attribute
scan_one(w, parent, f, attr_value, seen, fuel) ==
    Val({ IF ~Ok(r.w) THEN r
          ELSE scan_store(r.w, parent, f, attr_value, r.val, r.seen, fuel)
        : r \in {wrap_mutable(w, RecV(parent), attr_value, seen, 0, NameKey(f), fuel)} })

\* the attribute loop of scan_and_wrap_fields; `except Exception: pass`
scan_attrs(w, parent, attrs, f, seen, fuel) ==
    IF f > NumFields THEN Res(w, RecV(parent), seen)
    ELSE IF attrs[f] \in {MISSING, NoneV} \/ ignore_attr_name(parent, f)
         THEN scan_attrs(w, parent, attrs, f + 1, seen, fuel)
    ELSE Val({ IF ~Ok(Swallow(r.w)) THEN Res(r.w, RecV(parent), r.seen)
               ELSE scan_attrs(Swallow(r.w), parent, attrs, f + 1, r.seen, fuel)
             : r \in {scan_one(w, parent, f, attrs[f], seen, fuel)} })

\* wrapping.scan_and_wrap_fields(parent, _seen)
scan_and_wrap_fields(w, parent, seen, fuel) ==
    IF fuel = 0 THEN Res(Raise(w, "Diverged"), RecV(parent), seen)
    ELSE IF RecV(parent) \in seen THEN Res(w, RecV(parent), seen)
    ELSE scan_attrs(w, parent, w.fld[parent], 1, seen \cup {RecV(parent)}, fuel)

IsContainer(w, v) == v.t = "obj"

\* Python ==: it is identity for containers of the model's records and for
\* records, value equality for scalars: the scalars a and a + EqStep are two
\* objects that compare equal (1 and 1.0, "x" and another "x")
PyEq(a, b) == a = b \/ (a.t = "atom" /\ b.t = "atom" /\ a.n % EqStep = b.n % EqStep)

\* old_value != value raises
NeRaises(a, b) == a.t = "odd" \/ b.t = "odd"

\* a comparison that has no test for containers and compares them item by item
should_notify_change_by_value(w, old_value, new_value) ==
    IF old_value = new_value THEN FALSE
    ELSE IF NeRaises(old_value, new_value) THEN TRUE
    ELSE IF old_value.t = "obj" /\ new_value.t = "obj"
         THEN w.objs[old_value.n].kind # w.objs[new_value.n].kind
              \/ w.objs[old_value.n].vals # w.objs[new_value.n].vals
    ELSE ~PyEq(old_value, new_value)

\* a comparison that never reports a change
should_notify_change_never(w, old_value, new_value) == FALSE

\* inspection.should_notify_change(old_value, new_value)
should_notify_change(w, old_value, new_value) ==
    IF old_value = new_value THEN FALSE
    ELSE IF IsContainer(w, old_value) THEN TRUE
    ELSE IF NeRaises(old_value, new_value) THEN TRUE
    ELSE ~PyEq(old_value, new_value)

\* __setattr__ after wrap_mutable returned wrapped_value: the token link, the
\* store, the notification
setattr_store(w, r, name, old_value, wrapped_value) ==
    Val({ IF ~Ok(w2) THEN w2
          ELSE IF old_value = MISSING \/ should_notify_change(w2, old_value, wrapped_value)
               THEN changed([w2 EXCEPT !.fld[r][name] = wrapped_value], r, PropFuel)
          ELSE [w2 EXCEPT !.fld[r][name] = wrapped_value]
        : w2 \in {IF HasParents(w, wrapped_value)
                  THEN SetParent(w, wrapped_value, state(r), NameKey(name))
                  ELSE w} })

\* BaseMutableMixin.__setattr__(self, name, value) for a tracked attribute
setattr(w, r, name, value) ==
    IF ignore_attr_name(r, name) THEN [w EXCEPT !.fld[r][name] = value]
    ELSE IF w.fld[r][name] = value THEN w
    ELSE IF value.t \in {"atom", "none"}
         THEN IF w.fld[r][name] = MISSING
              THEN changed([w EXCEPT !.fld[r][name] = value], r, PropFuel)
              ELSE IF NeRaises(w.fld[r][name], value)
                   THEN Raise([w EXCEPT !.fld[r][name] = value], "CompareError")
              ELSE IF ~PyEq(w.fld[r][name], value)
                   THEN changed([w EXCEPT !.fld[r][name] = value], r, PropFuel)
              ELSE [w EXCEPT !.fld[r][name] = value]
    ELSE Val({ IF ~Ok(res.w) THEN res.w
               ELSE setattr_store(res.w, r, name, w.fld[r][name], res.val)
             : res \in {wrap_mutable(w, RecV(r), value, {}, 0, NameKey(name), WrapFuel)} })

\* LazyMutableMixin.__getattribute__(self, name): just-in-time wrapping
getattribute(w, r, name) ==
    IF ignore_attr_name(r, name) \/ ~is_mutable_and_untracked(w, w.fld[r][name])
    THEN Res(w, w.fld[r][name], {})
    ELSE Val({ IF ~Ok(res.w) THEN res
               ELSE Res(StoreField(res.w, r, name, w.fld[r][name], res.val), res.val, res.seen)
             : res \in {wrap_mutable(w, RecV(r), w.fld[r][name], {}, 0, NameKey(name), WrapFuel)} })

\* ------------------------------------------------------- garbage collection
RECURSIVE Closure(_, _)
Closure(o, S) ==
    Val({ IF N = S THEN S ELSE Closure(o, N)
        : N \in {S \cup {o[p[1]].vals[p[2]].n : p \in
                          {p \in S \X (1..MaxLen + 1) : p[2] <= Len(o[p[1]].vals)
                                                      /\ o[p[1]].vals[p[2]].t = "obj"}}} })

Roots(w, keep) ==
    keep \cup {w.fld[p[1]][p[2]].n : p \in {p \in Recs \X Fields : w.fld[p[1]][p[2]].t = "obj"}}

\* an owner-link table without the entries of collected owners
Prune(par, live) == SelectSeq(par, LAMBDA e : e.ref.t # "obj" \/ e.ref.n \in live)

\* containers no reference reaches are collected; a weakly keyed owner-link
\* entry disappears with its owner
Collect(w, keep) ==
    Val({ [w EXCEPT !.objs = [i \in ObjIds |->
                                IF i \in live
                                THEN [w.objs[i] EXCEPT !.par = Prune(@, live),
                                                       !.src = IF @ \in live THEN @ ELSE 0]
                                ELSE FreeObj],
                    !.rpar = [r \in Recs |-> Prune(w.rpar[r], live)]]
        : live \in {Closure(w.objs, Roots(w, keep))} })

\* ---------------------------------------------------------------- actions
Info(op, r, f, c, w) ==
    [op |-> op, r |-> r, f |-> f, c |-> c, hook |-> w.hook, dlv |-> w.dlv,
     flag |-> w.flag, fails |-> w.fails, exc |-> w.exc, desc |-> w.desc,
     fresh |-> w.fresh,
     raising |-> FALSE, pre |-> 0, reset |-> FALSE, muts |-> 0, inner |-> FALSE,
     res |-> NoneV, old |-> NoneV, arg |-> NoneV, again |-> FALSE,
     cls |-> "none", how |-> "none", deep |-> w.deep,
     ran |-> w.ran, failed |-> w.failed, lim |-> 0, len |-> 0,
     tries |-> w.tries, races |-> <<>>, pend |-> FALSE]

Built(r) == cfg[r].built
Budget == ops > 0

\* index of the innermost open scope of record r, 0 when it has none
Innermost(st, r) ==
    IF \E i \in DOMAIN st : st[i].r = r
    THEN CHOOSE i \in DOMAIN st : st[i].r = r /\ \A j \in DOMAIN st : st[j].r = r => j <= i
    ELSE 0

\* ghost bookkeeping: a scope remembers that the mixin's changed() of its
\* record ran inside it
MarkScopes(st, w) ==
    [i \in DOMAIN st |->
        IF w.hook[st[i].r] > 0 /\ cfg[st[i].r].hook = "ok" /\ i = Innermost(st, st[i].r)
        THEN [st[i] EXCEPT !.muts = Bump(@)] ELSE st[i]]

\* write the world back, collecting what no reference reaches
CommitHeap(w, keep) ==
    \E g \in {Collect(w, keep)} :
       /\ objs' = g.objs
       /\ fld' = g.fld
       /\ rpar' = g.rpar
       /\ pending' = g.pend
       /\ level' = g.lvl
       /\ held' = keep

\* the same for an operation that runs in the calling thread as a whole
Commit(w, keep) ==
    /\ CommitHeap(w, keep)
    /\ UNCHANGED <<thr, inst>>

\* an operation of the calling code other than entering or leaving a scope
Done(w, keep) ==
    /\ Commit(w, keep)
    /\ stack' = MarkScopes(stack, w)
    /\ ops' = ops - 1

\* the handler stayed within the heap of the model
Fits(w) == w.exc # "OutOfHeap"

\* the literals the calling code builds containers from: empty, two scalars,
\* or one container it holds
RawLits == {<<>>, <<AtomV(1), AtomV(2)>>} \cup {<<ObjV(h)>> : h \in ObjIds}

\* a raw list, dict or set with the given items
RawObj(kind, vals) ==
    [kind |-> kind, wrapped |-> FALSE,
     keys |-> IF kind = "dict" THEN [i \in DOMAIN vals |-> i] ELSE <<>>,
     vals |-> vals, par |-> <<>>, src |-> 0, restored |-> FALSE]

\* the calling code builds a raw list, dict or set and keeps a reference
NewRaw(kind, vals) ==
    /\ Budget
    /\ FreeIds(World) # {}
    /\ kind = "set" => vals = <<AtomV(1), AtomV(2)>>
    /\ \A k \in DOMAIN vals : vals[k].t = "obj" => vals[k].n \in held
    /\ \E id \in {Lowest(FreeIds(World))} :
          /\ Done([World EXCEPT !.objs[id] = RawObj(kind, vals)], held \cup {id})
          /\ last' = Info("new", 0, 0, id, World)
    /\ UNCHANGED <<cfg, ent>>

\* the calling code drops a reference
Forget(c) ==
    /\ Budget
    /\ c \in held
    /\ Done(World, held \ {c})
    /\ last' = Info("forget", 0, 0, c, World)
    /\ UNCHANGED <<cfg, ent>>

\* a record that does not exist yet, and its token, are in no owner-link table
Unlinked(r) ==
    /\ \A q \in Recs : ~HasKey(rpar[q], RecV(r)) /\ ~HasKey(rpar[q], TokV(r))
    /\ \A c \in ObjIds : ~HasKey(objs[c].par, RecV(r)) /\ ~HasKey(objs[c].par, TokV(r))

\* BaseMutableMixin.__init__ / MutableMixin.__init__: the host constructor has
\* stored the field, the mixin sets the defaults and restores tracking
Construct(r, v) ==
    /\ Budget
    /\ ~Built(r)
    /\ Unlinked(r)
    /\ v \in {NoneV, AtomV(1)} \cup {ObjV(c) : c \in held}
    /\ \E res \in {restore_tracking([World EXCEPT !.fld[r][1] = v, !.pend[r] = FALSE,
                                                  !.lvl[r] = 0], r, {}, WrapFuel)} :
          /\ Fits(res.w)
          /\ Done(res.w, held)
          /\ last' = [Info("init", r, 1, 0, res.w) EXCEPT !.arg = v]
    /\ cfg' = [cfg EXCEPT ![r].built = TRUE]
    /\ UNCHANGED ent

\* the references the calling code holds after record.name = value
Kept(r, name, value, mode) ==
    IF mode = "keepOld" THEN held \cup {fld[r][name].n}
    ELSE IF mode = "dropArg" THEN held \ Closure(objs, {value.n})
    ELSE held

\* record.name = value.  mode "keepOld": the calling code keeps a reference to
\* the container the field held; mode "dropArg": it keeps no reference to the
\* value it assigns (record.name = [...])
SetAttr(r, name, value, mode) ==
    /\ Budget
    /\ Built(r)
    /\ value \in {NoneV, OddV} \cup {AtomV(a) : a \in Atoms} \cup {ObjV(c) : c \in held}
                 \cup {RecV(q) : q \in {q \in Recs : Built(q)}}
    /\ mode = "keepOld" => fld[r][name].t = "obj" /\ fld[r][name].n \notin held
    /\ mode = "dropArg" => value.t = "obj"
    /\ \E w \in {setattr(World, r, name, value)}, kept \in {Kept(r, name, value, mode)} :
          /\ Fits(w)
          /\ Done(w, kept)
          /\ last' = [Info("setattr", r, name, 0, w) EXCEPT
                         !.old = fld[r][name], !.res = w.fld[r][name], !.arg = value]
    /\ UNCHANGED <<cfg, ent>>

\* the read of record.name by the calling code
read(w, q, name) ==
    IF cfg[q].lazy THEN getattribute(w, q, name) ELSE Res(w, w.fld[q][name], {})

\* record.name = other.name2: the value read from another record's field
SetAttrFrom(r, name, q, name2) ==
    /\ Budget
    /\ Built(r) /\ Built(q)
    /\ fld[q][name2].t = "obj"
    /\ \E rd \in {read(World, q, name2)} :
       \E w \in {IF Ok(rd.w) THEN setattr([rd.w EXCEPT !.desc = <<>>], r, name, rd.val)
                 ELSE rd.w} :
          /\ Fits(w)
          /\ Done(w, held)
          /\ last' = [Info("setattr", r, name, 0, w) EXCEPT
                         !.old = rd.w.fld[r][name], !.res = w.fld[r][name], !.arg = rd.val]
    /\ UNCHANGED <<cfg, ent>>

\* reading record.name of a lazy record
GetAttr(r, name) ==
    /\ Budget
    /\ Built(r) /\ cfg[r].lazy
    /\ fld[r][name] # MISSING
    /\ \E rd \in {getattribute(World, r, name)} :
          /\ Fits(rd.w)
          /\ Done(rd.w, held)
          /\ last' = [Info("getattr", r, name, 0, rd.w) EXCEPT
                         !.old = fld[r][name], !.res = rd.val]
    /\ UNCHANGED <<cfg, ent>>

\* containers reachable from a value by indexing
Below(w, v) == IF v.t = "obj" THEN Closure(w.objs, {v.n}) ELSE {}

\* list.append / dict.__setitem__ / set.add on the contents
Insert(o, k, v) ==
    IF o.kind = "list" THEN [o EXCEPT !.vals = Append(@, v)]
    ELSE IF o.kind = "set" THEN [o EXCEPT !.vals = SetAddVals(@, v)]
    ELSE IF \E i \in DOMAIN o.keys : o.keys[i] = k
         THEN [o EXCEPT !.vals = [i \in DOMAIN o.vals |-> IF o.keys[i] = k THEN v ELSE o.vals[i]]]
         ELSE [o EXCEPT !.keys = Append(@, k), !.vals = Append(@, v)]

\* MutableList.append / MutableDict.__setitem__ / MutableSet.add: the builtin
\* mutation, then self.changed(); a raw container only mutates
mutate(w, c, k, v) ==
    IF w.objs[c].wrapped
    THEN safe_changed([w EXCEPT !.objs[c] = Insert(@, k, v)], ObjV(c), PropFuel)
    ELSE [w EXCEPT !.objs[c] = Insert(@, k, v)]

MutArgs(c, k, v) ==
    /\ objs[c].kind # "free"
    /\ Len(objs[c].vals) < MaxLen + 1
    /\ k \in (IF objs[c].kind = "dict" THEN DictKeys ELSE {0})
    /\ v \in {AtomV(3)} \cup (IF objs[c].kind = "set" THEN {} ELSE {ObjV(h) : h \in held})

\* the calling code mutates a container it holds a reference to, or one it
\* reaches by indexing from such a container
Mutate(c, k, v) ==
    /\ Budget
    /\ c \in Closure(objs, held)
    /\ MutArgs(c, k, v)
    /\ \E w \in {mutate(World, c, k, v)} :
          /\ Fits(w)
          /\ Done(w, held)
          /\ last' = [Info("mutate", 0, 0, c, w) EXCEPT !.arg = v]
    /\ UNCHANGED <<cfg, ent>>

\* record.name[...].append(v) and the like: the attribute is read (just-in-time
\* wrapping on a lazy record), the target is reached by indexing, then mutated
MutateField(r, name, c, k, v) ==
    /\ Budget
    /\ Built(r)
    /\ fld[r][name].t = "obj"
    /\ MutArgs(c, k, v)
    /\ \E rd \in {read(World, r, name)} :
          /\ Fits(rd.w) /\ Ok(rd.w)
          /\ c \in Below(rd.w, rd.val)
          /\ rd.w.objs[c].kind = objs[c].kind
          /\ \E w \in {mutate([rd.w EXCEPT !.desc = <<>>], c, k, v)} :
                /\ Done(w, held)
                /\ last' = [Info("mutate", r, name, c, w) EXCEPT !.arg = v, !.res = rd.val]
    /\ UNCHANGED <<cfg, ent>>

\* record.changed() called by the host
Changed(r) ==
    /\ Budget
    /\ Built(r)
    /\ \E w \in {changed(World, r, PropFuel)} :
          /\ Done(w, held)
          /\ last' = Info("changed", r, 0, 0, w)
    /\ UNCHANGED <<cfg, ent>>

\* events.batch_change_suppression up to the yield
EnterBatch(r) ==
    /\ Budget
    /\ Built(r)
    /\ Len(stack) < MaxNest
    /\ Commit([World EXCEPT !.lvl[r] = @ + 1], held)
    /\ stack' = Append([i \in DOMAIN stack |->
                            IF stack[i].r = r THEN [stack[i] EXCEPT !.inner = TRUE]
                            ELSE stack[i]],
                        [r |-> r, pre |-> level[r], reset |-> FALSE, muts |-> 0,
                         inner |-> FALSE])
    /\ ops' = ops - 1
    /\ last' = [Info("enter", r, 0, 0, World) EXCEPT !.pre = level[r]]
    /\ UNCHANGED <<cfg, ent>>

\* a finally block that clears the level instead of decrementing it
batch_exit_clears(w, r) ==
    IF w.pend[r]
    THEN safe_changed([w EXCEPT !.lvl[r] = 0, !.pend[r] = FALSE], RecV(r), PropFuel)
    ELSE [w EXCEPT !.lvl[r] = 0]

\* a finally block that decrements without the max(0, ...) clamp
batch_exit_unclamped(w, r) ==
    Val({ IF new_level = 0 /\ w.pend[r]
          THEN safe_changed([w EXCEPT !.lvl[r] = new_level, !.pend[r] = FALSE],
                            RecV(r), PropFuel)
          ELSE [w EXCEPT !.lvl[r] = new_level]
        : new_level \in {w.lvl[r] - 1} })

\* the finally block of events.batch_change_suppression
batch_exit(w, r) ==
    Val({ IF new_level = 0 /\ w.pend[r]
          THEN safe_changed([w EXCEPT !.lvl[r] = new_level, !.pend[r] = FALSE],
                            RecV(r), PropFuel)
          ELSE [w EXCEPT !.lvl[r] = new_level]
        : new_level \in {Max(0, w.lvl[r] - 1)} })

\* ghost bookkeeping: what happened inside a scope that ends also happened
\* inside the scope of the same record that encloses it
Enclose(st, top) ==
    [i \in DOMAIN st |->
        IF i = Innermost(st, top.r)
        THEN [st[i] EXCEPT !.muts = Min(CountCap, @ + top.muts)] ELSE st[i]]

\* the innermost scope ends: its body returned or raised
ExitBatch(raising) ==
    /\ stack # <<>>
    /\ \E top \in {stack[Len(stack)]} :
       \E w \in {batch_exit(World, top.r)} :
          /\ Commit(w, held)
          /\ stack' = MarkScopes(Enclose(SubSeq(stack, 1, Len(stack) - 1), top), w)
          /\ last' = [Info("exit", top.r, 0, 0, w) EXCEPT
                         !.raising = raising, !.pre = top.pre,
                         !.reset = top.reset, !.muts = top.muts, !.inner = top.inner,
                         !.pend = pending[top.r]]
    /\ UNCHANGED <<cfg, ent, ops>>

\* ------------------------------------------------------------ serialization
Rank(S, x) == Cardinality({y \in S : y < x}) + 1
Nth(S, n) == CHOOSE x \in S : Rank(S, x) = n

\* the containers pickle walks from the fields of record r
Pickled(r) ==
    Closure(objs, {fld[r][f].n : f \in {f \in Fields : fld[r][f].t = "obj"}})

\* the copy of container x among the unpickled copies of P
CopyOf(w, P, x) == Nth(FreeIds(w), Rank(P, x))

\* the copy of a value
CopyVal(w, P, v) == IF v.t = "obj" THEN ObjV(CopyOf(w, P, v.n)) ELSE v

\* pickle.loads(pickle.dumps(...)) of the containers: every container is
\* rebuilt once (the memo keeps sharing), a Keyable wrapper as a Keyable
\* wrapper (MutableList.__reduce_ex__, MutableDict.__getstate__), with its
\* own attributes (_parents_store, changed) left behind
Unpickled(w, P) ==
    [i \in ObjIds |->
        IF \E x \in P : CopyOf(w, P, x) = i
        THEN [w.objs[CHOOSE x \in P : CopyOf(w, P, x) = i] EXCEPT
                 !.par = <<>>, !.src = 0, !.restored = TRUE,
                 !.vals = [k \in DOMAIN @ |-> CopyVal(w, P, @[k])]]
        ELSE w.objs[i]]

\* a reset that forgets the owner links and keeps the counters
reset_trackable_state_keeps(w, r) ==
    [w EXCEPT !.rpar[r] = <<>>]

\* serialization.reset_trackable_state(instance)
reset_trackable_state(w, r) ==
    [w EXCEPT !.rpar[r] = <<>>, !.lvl[r] = 0, !.pend[r] = FALSE]

\* BaseMutableMixin.__setstate__(state): the fields are stored as given, the
\* tracking state is reset, tracking is restored
setstate(w, r, fields) ==
    restore_tracking(reset_trackable_state([w EXCEPT !.fld[r] = fields], r), r, {}, WrapFuel).w

NoRecBelow(r) ==
    /\ \A f \in Fields : fld[r][f].t # "rec"
    /\ \A c \in Pickled(r) : \A k \in DOMAIN objs[c].vals : objs[c].vals[k].t # "rec"

\* a Keyable list or set that contains itself cannot be pickled (its reduce
\* arguments contain it)
Picklable(r) ==
    \A c \in Pickled(r) :
        (objs[c].wrapped /\ objs[c].kind # "dict") =>
            c \notin Closure(objs, {objs[c].vals[k].n : k \in
                                      {k \in DOMAIN objs[c].vals : objs[c].vals[k].t = "obj"}})

\* dst = pickle.loads(pickle.dumps(src)): __getstate__, then __setstate__ on a
\* new instance of the same class
Pickle(src, dst) ==
    /\ Budget
    /\ Built(src) /\ ~Built(dst)
    /\ cfg[dst] = [cfg[src] EXCEPT !.built = FALSE]
    /\ NoRecBelow(src) /\ Picklable(src)
    /\ \E P \in {Pickled(src)} :
          /\ Cardinality(FreeIds(World)) >= Cardinality(P)
          /\ \E w \in {setstate([World EXCEPT !.objs = Unpickled(World, P)], dst,
                                [f \in Fields |-> CopyVal(World, P, fld[src][f])])} :
                /\ Fits(w)
                /\ Done(w, held)
                /\ last' = Info("pickle", dst, 0, 0, w)
    /\ cfg' = [cfg EXCEPT ![dst].built = TRUE]
    /\ UNCHANGED ent

\* record.__setstate__(record.__getstate__()) on a live record
SetState(r) ==
    /\ Budget
    /\ Built(r)
    /\ \E w \in {setstate(World, r, fld[r])} :
          /\ Fits(w)
          /\ Commit(w, held)
          /\ stack' = [i \in DOMAIN stack |->
                         IF stack[i].r = r THEN [stack[i] EXCEPT !.reset = TRUE] ELSE stack[i]]
          /\ ops' = ops - 1
          /\ last' = [Info("setstate", r, 0, 0, w) EXCEPT !.pre = level[r]]
    /\ UNCHANGED <<cfg, ent>>

\* the persistence layer registers itself as an owner of the record: the
\* attribute listeners of Mutable.associate_with store the InstanceState
\* (kind "sa"), a caller of the walker stores the entity itself (kind "plain")
Attach(r, e, kind) ==
    /\ Budget
    /\ Built(r)
    /\ Done([World EXCEPT !.rpar[r] = PutLink(@, [t |-> kind, n |-> e], NameKey(1))], held)
    /\ last' = Info("attach", r, 0, 0, World)
    /\ UNCHANGED <<cfg, ent>>

EntModes == {"ok", "dead", "objRaises", "flagRaises"}

\* the persistence layer's owner changes how it answers
SetEnt(e, mode) ==
    /\ Budget
    /\ ent[e] # mode
    /\ ent' = [ent EXCEPT ![e] = mode]
    /\ Done(World, held)
    /\ last' = Info("setent", 0, 0, 0, World)
    /\ UNCHANGED cfg

\* ------------------------------------------------------------ specification
Cfg(built, lazy, hashable, maxDepth, hook) ==
    [built |-> built, lazy |-> lazy, hashable |-> hashable, maxDepth |-> maxDepth, hook |-> hook,
     skip |-> {}]

InitWith(C, n) ==
    /\ cfg \in [Recs -> C]
    /\ objs = [i \in ObjIds |-> FreeObj]
    /\ fld = [r \in Recs |-> [f \in Fields |->
                  IF cfg[r].built /\ f = 1 THEN NoneV ELSE MISSING]]
    /\ rpar = [r \in Recs |-> <<>>]
    /\ level = [r \in Recs |-> 0]
    /\ pending = [r \in Recs |-> FALSE]
    /\ ent = [e \in Ents |-> "ok"]
    /\ held = {}
    /\ stack = <<>>
    /\ ops = n
    /\ last = Info("start", 0, 0, 0, World)
    /\ thr = [t \in Threads |-> Idle]
    /\ inst = [r \in Recs |-> 0]

Kinds == {"list", "dict", "set"}

Build ==
    \/ \E kind \in Kinds, vals \in RawLits : NewRaw(kind, vals)
    \/ \E r \in Recs, v \in {NoneV, AtomV(1)} \cup {ObjV(c) : c \in ObjIds} : Construct(r, v)

Assign ==
    \/ \E r \in Recs, f \in Fields, mode \in {"plain", "keepOld", "dropArg"},
          v \in {NoneV, AtomV(1), AtomV(2)} \cup {ObjV(c) : c \in ObjIds}
                \cup {RecV(q) : q \in Recs} : SetAttr(r, f, v, mode)
    \/ \E r \in Recs, f \in Fields, q \in Recs, g \in Fields : SetAttrFrom(r, f, q, g)

Mutations ==
    \/ \E c \in ObjIds, k \in DictKeys \cup {0}, v \in {AtomV(3)} \cup {ObjV(h) : h \in ObjIds} :
          Mutate(c, k, v)
    \/ \E r \in Recs, f \in Fields, c \in ObjIds, k \in DictKeys \cup {0},
          v \in {AtomV(3)} \cup {ObjV(h) : h \in ObjIds} : MutateField(r, f, c, k, v)

Batching ==
    \/ \E r \in Recs : EnterBatch(r)
    \/ \E raising \in BOOLEAN : ExitBatch(raising)
    \/ \E r \in Recs : Changed(r)

Init == InitWith({Cfg(TRUE, FALSE, TRUE, DEFAULT_MAX_NESTING_DEPTH, "ok")}, MaxOps)

Next ==
    \/ Build
    \/ Assign
    \/ Mutations
    \/ Batching

Spec == Init /\ [][Next]_vars

\* ------------------------------------------------------------------ batching
\* Records of a hashable host class under batch_changes() scopes.
BatchOps == 4

InitBatch == InitWith({Cfg(TRUE, FALSE, TRUE, DEFAULT_MAX_NESTING_DEPTH, "ok")}, BatchOps)

NextBatch ==
    \/ NewRaw("list", <<>>)
    \/ \E r \in Recs, v \in {AtomV(1)} \cup {RecV(q) : q \in Recs} : SetAttr(r, 1, v, "plain")
    \/ \E r \in Recs, c \in ObjIds : SetAttr(r, 1, ObjV(c), "dropArg")
    \/ \E r \in Recs, c \in ObjIds : MutateField(r, 1, c, 0, AtomV(3))
    \/ \E r \in Recs : Changed(r)
    \/ \E r \in Recs : EnterBatch(r)
    \/ \E raising \in BOOLEAN : ExitBatch(raising)
    \/ \E r \in Recs : SetState(r)

SpecBatch == InitBatch /\ [][NextBatch]_vars

OpenScope(r) == \E i \in DOMAIN stack : stack[i].r = r /\ ~stack[i].reset

\* a scope whose body only mutated (no restore of the record inside it) ended
Exited == last.op = "exit" /\ ~last.reset

\* C1: the mutations of a record made inside one batch_changes() scope of it
\* run the record's own propagation zero times while the scope is open and
\* exactly once when the scope exits
C1_SingleScopeDeliversOnce ==
    /\ \A r \in Recs : OpenScope(r) => last.dlv[r] = 0
    /\ (Exited /\ last.pre = 0 /\ last.muts >= 1) => last.dlv[last.r] = 1

\* C2: with nested scopes on one record, leaving an inner scope runs no
\* propagation of the record, and leaving the outermost scope runs exactly one,
\* when a notifying mutation happened anywhere inside
C2_NestedScopesDeliverOnce ==
    /\ (Exited /\ last.pre > 0) => last.dlv[last.r] = 0
    /\ (Exited /\ last.pre = 0 /\ last.inner /\ last.muts >= 1) => last.dlv[last.r] = 1

\* C3 as stated: when a scope ends, by return or by exception, the record's
\* suppression level is the level it had before the scope was entered
C3_LevelRestored ==
    last.op = "exit" => level[last.r] = last.pre

\* C3 amended: the level is the one before the scope was entered when the
\* record was not restored (__setstate__) inside the scope
C3_LevelRestoredUnlessReset ==
    Exited => level[last.r] = last.pre

\* a nested scope whose body raised has ended and the level is back at 1
C3_Witness ==
    Exited /\ last.raising /\ last.pre = 1 /\ level[last.r] = 1

\* ------------------------------------------------------------------- sharing
\* Containers shared between fields and records of a hashable host class.
ShareOps == 4

InitShare == InitWith({Cfg(TRUE, FALSE, TRUE, DEFAULT_MAX_NESTING_DEPTH, "ok")}, ShareOps)

NextShare ==
    \/ \E kind \in {"list", "dict"}, vals \in RawLits : NewRaw(kind, vals)
    \/ \E r \in Recs, f \in Fields, c \in ObjIds, mode \in {"plain", "dropArg"} :
          SetAttr(r, f, ObjV(c), mode)
    \/ \E r \in Recs, f \in Fields, q \in Recs, g \in Fields : SetAttrFrom(r, f, q, g)
    \/ \E r \in Recs, f \in Fields, c \in ObjIds, k \in DictKeys \cup {0},
          v \in {AtomV(3)} \cup {ObjV(h) : h \in ObjIds} : MutateField(r, f, c, k, v)

SpecShare == InitShare /\ [][NextShare]_vars

\* the records that hold container c in a field
SharedBy(c) == {r \in Recs : \E f \in Fields : fld[r][f] = ObjV(c)}

\* C4: one append to a wrapped list that is the field value of both records
\* invokes the changed() of each record exactly once, and the appended item is
\* in the list both records see
C4_SharedListNotifiesBoth ==
    (last.op = "mutate" /\ objs[last.c].wrapped /\ objs[last.c].kind = "list"
        /\ SharedBy(last.c) = Recs)
    => /\ \A r \in Recs : last.hook[r] = 1
       /\ objs[last.c].vals[Len(objs[last.c].vals)] = last.arg

\* the containers reached from the fields of the records
Tracked == Closure(objs, Roots(World, {}))

\* C5: a raw container assigned twice, or reached twice in one traversal, has
\* exactly one wrapper: no two wrappers are built from the same raw container,
\* and no access path from a field assigned to leads to a raw container
C5_OneWrapperPerRaw ==
    last.op = "setattr" /\ last.exc = "none"
    => /\ \A i, j \in Tracked :
             (objs[i].wrapped /\ objs[j].wrapped /\ objs[i].src # 0
                 /\ objs[i].src = objs[j].src) => i = j
       /\ \A c \in Below(World, fld[last.r][last.f]) : objs[c].wrapped

\* ----------------------------------------------------------------- walking
\* Raw graphs with cycles and nesting, assigned to a field or passed to the
\* constructor; record ceilings of SmallDepth and of the default.
WalkOps == 4

InitWalk ==
    InitWith({Cfg(TRUE, FALSE, TRUE, SmallDepth, "ok"),
              Cfg(TRUE, FALSE, TRUE, DEFAULT_MAX_NESTING_DEPTH, "ok"),
              Cfg(FALSE, FALSE, TRUE, DEFAULT_MAX_NESTING_DEPTH, "ok")}, WalkOps)

NextWalk ==
    \/ \E kind \in {"list", "dict"}, vals \in RawLits : NewRaw(kind, vals)
    \/ \E c \in ObjIds, k \in {0, 1}, h \in ObjIds : Mutate(c, k, ObjV(h))
    \/ \E r \in Recs, c \in ObjIds, mode \in {"plain", "dropArg"} : SetAttr(r, 1, ObjV(c), mode)
    \/ \E r \in Recs, c \in ObjIds : Construct(r, ObjV(c))
    \/ \E r \in Recs, c \in ObjIds : MutateField(r, 1, c, 0, AtomV(3))

SpecWalk == InitWalk /\ [][NextWalk]_vars

NoDup(s) == \A i, j \in DOMAIN s : s[i] = s[j] => i = j

\* the items of container c that are containers
Items(c) == {objs[c].vals[i].n : i \in {i \in DOMAIN objs[c].vals : objs[c].vals[i].t = "obj"}}

\* raw container c lies on a cycle of raw containers
OnRawCycle(c) ==
    /\ objs[c].kind \in {"list", "dict"} /\ ~objs[c].wrapped
    /\ \E d \in Items(c) : ~objs[d].wrapped /\ c \in Closure(objs, {d})

\* C6: a traversal started by an assignment or by the constructor terminates,
\* and wraps (descends into) each raw container at most once
C6_WalkTerminatesOncePerRaw ==
    last.op \in {"setattr", "init"} => last.exc # "Diverged" /\ NoDup(last.desc)

\* a traversal of a raw graph with a cycle has ended normally
C6_Witness ==
    /\ last.op \in {"setattr", "init"} /\ last.exc = "none"
    /\ last.arg.t = "obj" /\ OnRawCycle(last.arg.n)
    /\ last.arg \in {last.desc[i] : i \in DOMAIN last.desc}

\* C7: after a cyclic raw structure is assigned to a field, following the
\* cycle from the field value leads back to the field value itself, a wrapper:
\* field[0] is field for a list holding itself, field[k][j] is field for two
\* dicts holding each other
C7_CycleReturnsToWrapper ==
    (last.op = "setattr" /\ last.exc = "none" /\ last.arg.t = "obj"
        /\ OnRawCycle(last.arg.n) /\ last.res.t = "obj")
    => /\ objs[last.res.n].wrapped
       /\ \A i \in DOMAIN objs[last.arg.n].vals :
             LET item == objs[last.arg.n].vals[i]
                 got == objs[last.res.n].vals[i]
             IN  /\ item = last.arg => got = last.res
                 /\ (item.t = "obj" /\ item # last.arg) =>
                       \A j \in DOMAIN objs[item.n].vals :
                          objs[item.n].vals[j] = last.arg =>
                             got.t = "obj" /\ j \in DOMAIN objs[got.n].vals
                                /\ objs[got.n].vals[j] = last.res

\* the containers d levels of indexing below the containers of S
RECURSIVE AtDepth(_, _)
AtDepth(S, d) == IF d = 0 THEN S ELSE AtDepth(UNION {Items(c) : c \in S}, d - 1)

\* C8: on a record whose ceiling is SmallDepth, a raw structure nested deeper
\* than that is wrapped down to depth SmallDepth, and what lies one level
\* deeper is left as it was: no wrapper is built for it
C8_CeilingStopsWrapping ==
    (last.op = "setattr" /\ last.exc = "none" /\ last.res.t = "obj"
        /\ last.res.n \in last.fresh /\ cfg[last.r].maxDepth = SmallDepth)
    => /\ \A c \in AtDepth({last.res.n}, SmallDepth) : objs[c].wrapped
       /\ \A c \in AtDepth({last.res.n}, SmallDepth + 1) : c \notin last.fresh

\* ------------------------------------------------------------ round trip
\* A record of an eager or a lazy hashable host class is filled, pickled and
\* unpickled into the second record; the restored containers are mutated.
PickleOps == 5

InitPickle ==
    /\ InitWith({Cfg(b, lz, TRUE, DEFAULT_MAX_NESTING_DEPTH, "ok") : b, lz \in BOOLEAN}, PickleOps)
    /\ cfg[1].built
    /\ cfg[2] = [cfg[1] EXCEPT !.built = FALSE]

NextPickle ==
    \/ \E kind \in {"list", "dict"}, vals \in RawLits : NewRaw(kind, vals)
    \/ \E c \in ObjIds : SetAttr(1, 1, ObjV(c), "dropArg")
    \/ \E r \in Recs : GetAttr(r, 1)
    \/ Pickle(1, 2)
    \/ \E r \in Recs, c \in ObjIds, k \in {0, 1} : MutateField(r, 1, c, k, AtomV(3))

SpecPickle == InitPickle /\ [][NextPickle]_vars

\* C9: one mutation of a container that came back from the round trip, reached
\* from a field of the restored record, invokes the record's changed() exactly
\* once, and the new item is in the container the field leads to
C9_RestoredMutationNotifiesOnce ==
    (last.op = "mutate" /\ last.r # 0 /\ objs[last.c].restored)
    => /\ last.hook[last.r] = 1
       /\ last.c \in Below(World, fld[last.r][last.f])
       /\ last.arg \in {objs[last.c].vals[i] : i \in DOMAIN objs[last.c].vals}

\* ---------------------------------------------------------- failing owners
\* Records owned by each other and by the persistence layer, whose owners'
\* hooks and accessors may raise.
NotifyOps == 4

InitNotify ==
    InitWith({Cfg(TRUE, FALSE, TRUE, DEFAULT_MAX_NESTING_DEPTH, h) : h \in {"ok", "raise"}},
             NotifyOps)

NextNotify ==
    \/ \E r \in Recs, e \in Ents, kind \in {"sa", "plain"} : Attach(r, e, kind)
    \/ \E e \in Ents, mode \in EntModes : SetEnt(e, mode)
    \/ \E r \in Recs : Changed(r)
    \/ \E r \in Recs, v \in {AtomV(1), AtomV(2)} \cup {RecV(q) : q \in Recs} :
          SetAttr(r, 1, v, "plain")

SpecNotify == InitNotify /\ [][NextNotify]_vars

\* C10: an exception raised during propagation by an owner's changed() hook,
\* by an owner's obj() accessor or by flag_modified does not leave
\* safe_changed: a mutation of a record whose own hook does not raise ends
\* without the exception of a failed owner
C10_PropagationNeverRaises ==
    (last.op \in {"changed", "setattr"} /\ cfg[last.r].hook = "ok")
    => last.exc \notin {"HookError", "UnboundLocalError"}

\* the records among the owners of record r
OwnerRecs(r) == {rpar[r][i].ref.n : i \in {i \in DOMAIN rpar[r] : rpar[r][i].ref.t = "rec"}}

\* C11: when delivery to one owner of a record raises and the ceiling of
\* failures is not reached, the owners after it are still processed: every
\* record among the owners has had its changed() invoked
C11_FailingOwnerDoesNotBlock ==
    (last.op = "changed" /\ cfg[last.r].hook = "ok" /\ last.fails < max_failures
        /\ last.r \notin OwnerRecs(last.r)
        /\ (last.fails >= 1 \/ last.exc \in {"HookError", "UnboundLocalError"}))
    => \A q \in OwnerRecs(last.r) : last.hook[q] >= 1

\* ------------------------------------------------------------- dead owners
\* a weakly keyed table after record r is destroyed: the entry of the record
\* leaves it, and the entry of its token too unless the token is still held
Drop(par, r, keepTok) ==
    SelectSeq(par, LAMBDA e : e.ref # RecV(r) /\ (keepTok \/ e.ref # TokV(r)))

\* del record: the last reference to record r goes away; the calling code
\* holds (keepTok) or does not hold the record's MutableState
Destroy(r, keepTok) ==
    /\ Budget
    /\ Built(r)
    /\ \A i \in DOMAIN stack : stack[i].r # r
    /\ \A q \in Recs, f \in Fields : fld[q][f] # RecV(r)
    /\ \A c \in ObjIds : \A k \in DOMAIN objs[c].vals : objs[c].vals[k] # RecV(r)
    /\ Done([World EXCEPT !.fld[r] = [f \in Fields |-> MISSING],
                          !.rpar = [q \in Recs |->
                                      IF q = r THEN <<>> ELSE Drop(World.rpar[q], r, keepTok)],
                          !.objs = [i \in ObjIds |->
                                      [World.objs[i] EXCEPT !.par = Drop(@, r, keepTok)]],
                          !.lvl[r] = 0, !.pend[r] = FALSE], held)
    /\ cfg' = [cfg EXCEPT ![r].built = FALSE]
    /\ last' = Info("del", r, 0, 0, World)
    /\ UNCHANGED ent

DeadOps == 5

InitDead ==
    InitWith({Cfg(b, FALSE, TRUE, DEFAULT_MAX_NESTING_DEPTH, "ok") : b \in BOOLEAN}, DeadOps)

NextDead ==
    \/ \E vals \in {<<>>, <<AtomV(1), AtomV(2)>>} : NewRaw("list", vals)
    \/ \E r \in Recs, c \in ObjIds : Construct(r, ObjV(c))
    \/ \E r \in Recs, v \in {ObjV(c) : c \in ObjIds} \cup {RecV(q) : q \in Recs} :
          SetAttr(r, 1, v, "plain")
    \/ \E r \in Recs, q \in Recs : SetAttrFrom(r, 1, q, 1)
    \/ \E r \in Recs, keepTok \in BOOLEAN : Destroy(r, keepTok)
    \/ \E r \in Recs, c \in ObjIds : MutateField(r, 1, c, 0, AtomV(3))
    \/ \E r \in Recs : Changed(r)

SpecDead == InitDead /\ [][NextDead]_vars

\* the owner-link table the last operation propagated from
Notified ==
    IF last.op = "changed" THEN rpar[last.r]
    ELSE IF last.op = "mutate" /\ objs[last.c].wrapped THEN objs[last.c].par
    ELSE <<>>

\* an entry whose key is the token of a destroyed record
DeadTok(e) == e.ref.t = "tok" /\ ~cfg[e.ref.n].built

\* C12: propagation from a table whose only token entries are those of
\* destroyed records skips them: nothing is raised, nothing is counted as a
\* failure, and every record in the table has its changed() invoked
C12_DeadOwnerSkipped ==
    (/\ \E i \in DOMAIN Notified : DeadTok(Notified[i])
     /\ \A i \in DOMAIN Notified : Notified[i].ref.t = "tok" => DeadTok(Notified[i]))
    => /\ last.exc = "none"
       /\ last.fails = 0
       /\ \A i \in DOMAIN Notified : Notified[i].ref.t = "rec" => last.hook[Notified[i].ref.n] >= 1

\* -------------------------------------------------------------- assignment
\* Assignments of scalars, of an object whose comparison raises, of raw and
\* wrapped containers and of records to the fields of hashable records.
AssignOps == 4

InitAssign ==
    InitWith({Cfg(b, FALSE, TRUE, DEFAULT_MAX_NESTING_DEPTH, "ok") : b \in BOOLEAN}, AssignOps)

NextAssign ==
    \/ \E kind \in {"list", "dict"}, vals \in {<<>>, <<AtomV(1), AtomV(2)>>} : NewRaw(kind, vals)
    \/ \E r \in Recs, v \in {AtomV(1)} \cup {ObjV(c) : c \in ObjIds} : Construct(r, v)
    \/ \E r \in Recs, mode \in {"plain", "keepOld", "dropArg"},
          v \in {NoneV, OddV, AtomV(1), AtomV(2), AtomV(1 + EqStep)}
                \cup {ObjV(c) : c \in ObjIds} \cup {RecV(q) : q \in Recs} :
          SetAttr(r, 1, v, mode)
    \/ \E r \in Recs, q \in Recs : SetAttrFrom(r, 1, q, 1)
    \/ \E r \in Recs, c \in ObjIds, k \in {0, 1} : MutateField(r, 1, c, k, AtomV(3))

SpecAssign == InitAssign /\ [][NextAssign]_vars

Scalar(v) == v.t \in {"atom", "none"}

\* C13: a scalar is never wrapped.  Assigned to a field or passed to the
\* constructor and scanned, the field holds the scalar itself and the walker
\* built no wrapper; stored into a container it is in the container; and the
\* wrapper built from a raw container holds, slot by slot, the scalars of the
\* raw container
C13_ScalarsNeverWrapped ==
    /\ (last.op \in {"setattr", "init"} /\ Scalar(last.arg))
       => fld[last.r][last.f] = last.arg /\ last.fresh = {} /\ last.desc = <<>>
    /\ (last.op = "mutate" /\ Scalar(last.arg))
       => last.arg \in {objs[last.c].vals[i] : i \in DOMAIN objs[last.c].vals}
    /\ \A c \in last.fresh :
          (last.op \in {"setattr", "init"} /\ objs[c].wrapped /\ objs[c].src # 0
              /\ objs[c].kind \in {"list", "dict"})
          => \A i \in DOMAIN objs[objs[c].src].vals :
                Scalar(objs[objs[c].src].vals[i])
                => i \in DOMAIN objs[c].vals /\ objs[c].vals[i] = objs[objs[c].src].vals[i]

\* a scalar was assigned to a field that held a container
C13_Witness ==
    /\ last.op = "setattr" /\ last.exc = "none"
    /\ last.arg.t = "atom" /\ last.old.t = "obj"

\* ------------------------------------------------------------------ restore
\* Records of a hashable host class are built by a host constructor that
\* stores both fields, filled, put under batch_changes() scopes, owned by the
\* persistence layer, and restored: by __setstate__ on the live record, by a
\* pickle round trip into the second record, and by _restore_tracking() alone
\* (ModelType.process_result_value calls it on a record whose constructor has
\* already restored tracking).
RestoreOps == 4

\* the host constructor has stored every field (pydantic's __init__ writes the
\* instance __dict__), the mixin sets the defaults and restores tracking
ConstructAll(r, v1, v2) ==
    /\ Budget
    /\ ~Built(r)
    /\ Unlinked(r)
    /\ {v1, v2} \subseteq {NoneV} \cup {ObjV(c) : c \in held}
    /\ \E res \in {restore_tracking([World EXCEPT !.fld[r] = <<v1, v2>>, !.pend[r] = FALSE,
                                                  !.lvl[r] = 0], r, {}, WrapFuel)} :
          /\ Fits(res.w)
          /\ Done(res.w, held)
          /\ last' = Info("init", r, 0, 0, res.w)
    /\ cfg' = [cfg EXCEPT ![r].built = TRUE]
    /\ UNCHANGED ent

RestoreKinds == {"init", "restore", "setstate", "pickle"}

\* record._restore_tracking() on a live record
Restore(r) ==
    /\ Budget
    /\ Built(r)
    /\ \E res \in {restore_tracking(World, r, {}, WrapFuel)} :
          /\ Fits(res.w)
          /\ Done(res.w, held)
          /\ last' = [Info("restore", r, 0, 0, res.w) EXCEPT
                         !.pre = level[r],
                         !.again = (last.op \in RestoreKinds /\ last.r = r)]
    /\ UNCHANGED <<cfg, ent>>

InitRestore ==
    /\ InitWith({Cfg(b, FALSE, TRUE, DEFAULT_MAX_NESTING_DEPTH, "ok") : b \in BOOLEAN},
                RestoreOps)
    /\ cfg[1].built \/ ~cfg[2].built

NextRestore ==
    \/ \E kind \in {"list", "set"} : NewRaw(kind, <<AtomV(1), AtomV(2)>>)
    \/ \E r \in Recs, v1, v2 \in {NoneV} \cup {ObjV(c) : c \in ObjIds} : ConstructAll(r, v1, v2)
    \/ \E r \in Recs, c \in ObjIds : SetAttr(r, 1, ObjV(c), "dropArg")
    \/ \E r \in Recs : Attach(r, 1, "sa")
    \/ \E r \in Recs : EnterBatch(r)
    \/ \E r \in Recs : Changed(r)
    \/ \E r \in Recs : SetState(r)
    \/ Pickle(1, 2)
    \/ \E r \in Recs : Restore(r)

SpecRestore == InitRestore /\ [][NextRestore]_vars

\* C14: after __setstate__ (the fields stored, reset_trackable_state, the
\* walk), on the live record or on the new instance of a round trip, the
\* record's suppression depth is 0 and its pending flag is false, whatever
\* they were before
C14_RestoreResetsDepthAndPending ==
    last.op \in {"setstate", "pickle"} => level[last.r] = 0 /\ ~pending[last.r]

\* a record restored inside its own open scope in which a change was deferred
C14_Witness ==
    /\ last.op = "setstate"
    /\ last.pre > 0
    /\ \E i \in DOMAIN stack : stack[i].r = last.r /\ stack[i].muts > 0

\* C15: after a restore the record carries nothing of its previous lifetime:
\* its own owner-link table is empty and the token it held before is
\* discarded, so that no owner-link table holds an entry under the token the
\* record links its children with from now on
C15_NothingFromOldLifetime ==
    last.op \in {"setstate", "pickle"}
    => /\ rpar[last.r] = <<>>
       /\ \A q \in Recs : ~HasKey(rpar[q], state(last.r))
       /\ \A c \in ObjIds : ~HasKey(objs[c].par, state(last.r))

\* the second of two restores of one record in a row: _restore_tracking()
\* after the constructor, a restore or a __setstate__ of that record, or
\* __setstate__ after __setstate__
SecondRestore ==
    /\ last.r = last'.r
    /\ \/ last'.op = "restore" /\ last.op \in RestoreKinds
       \/ last'.op = "setstate" /\ last.op = "setstate"

\* C16: restore is idempotent: the second of two restores in a row leaves
\* every field with the container it held, every owner-link table, the depth
\* and the pending flag as the first left them, and invokes no changed() and
\* no flag_modified
C16_RestoreIdempotent ==
    [][SecondRestore =>
         /\ fld' = fld /\ objs' = objs /\ rpar' = rpar
         /\ level' = level /\ pending' = pending
         /\ \A q \in Recs : last'.hook[q] = 0
         /\ last'.flag = 0]_vars

\* the value of the last assignment was a trackable container before it
Trackable(v) == v.t = "obj" /\ objs[v.n].wrapped /\ v.n \notin last.fresh

NonContainer(v) == v.t \in {"atom", "none", "rec"}

C20_RaisingComparisonAssumesChange ==
    (last.op = "setattr" /\ last.old # last.arg /\ last.old # MISSING
        /\ ~IsContainer(World, last.old) /\ NeRaises(last.old, last.arg)
        /\ rpar[last.r] = <<>>)
    => /\ fld[last.r][last.f] # last.old
       /\ last.hook[last.r] >= 1
       /\ last.exc = "none"

\* ----------------------------------------------------------------- coercion
\* The persistence layer hands a value assigned to a column to the class
\* method coerce of an eager or a lazy host class, which may or may not have a
\* validator (model_validate), whose validation succeeds or raises.
CoerceOps == 3

Classes == {"eager", "lazy"}

\* isinstance(value, cls)
InstanceOf(q, cls) == cfg[q].built /\ cfg[q].lazy = (cls = "lazy")

\* the records cls(...) can become
NewRecs(cls) == {q \in Recs : ~cfg[q].built /\ cfg[q].lazy = (cls = "lazy")}

\* isinstance(value, constants._COLLECTION_TYPES): MutableList, MutableDict,
\* MutableSet
IsCollection(w, value) == value.t = "obj" /\ w.objs[value.n].wrapped

\* a plain dict
RawMapping(w, value) ==
    value.t = "obj" /\ ~w.objs[value.n].wrapped /\ w.objs[value.n].kind = "dict"

\* cls.model_validate(value) that succeeds: a new instance whose constructor
\* stores the values of the mapping under the field names and restores
\* tracking
model_validate(w, cls, value) ==
    Val({ restore_tracking(
              [w EXCEPT !.fld[q] = [f \in Fields |->
                                       IF f \in DOMAIN w.objs[value.n].vals
                                       THEN w.objs[value.n].vals[f] ELSE NoneV],
                        !.pend[q] = FALSE, !.lvl[q] = 0], q, {}, WrapFuel)
        : q \in {Lowest(NewRecs(cls))} })

\* a coerce that lets the validator's exception through
coerce_strict(w, cls, value, how) ==
    IF value = NoneV THEN Res(w, NoneV, {})
    ELSE IF value.t = "rec" /\ InstanceOf(value.n, cls) THEN Res(w, value, {})
    ELSE IF IsCollection(w, value) THEN Res(w, value, {})
    ELSE IF RawMapping(w, value) /\ how = "ok" THEN model_validate(w, cls, value)
    ELSE IF RawMapping(w, value) /\ how = "raises"
         THEN Res(Raise(w, "ValidationError"), value, {})
    ELSE Res(w, value, {})

\* BaseMutableMixin.coerce(cls, key, value); how: the class has no
\* model_validate ("absent"), or it has and the validation succeeds ("ok") or
\* raises ("raises", caught and logged)
coerce(w, cls, value, how) ==
    IF value = NoneV THEN Res(w, NoneV, {})
    ELSE IF value.t = "rec" /\ InstanceOf(value.n, cls) THEN Res(w, value, {})
    ELSE IF IsCollection(w, value) THEN Res(w, value, {})
    ELSE IF RawMapping(w, value) /\ how = "ok" THEN model_validate(w, cls, value)
    ELSE Res(w, value, {})

\* the persistence layer calls cls.coerce(key, value)
Coerce(cls, value, how) ==
    /\ Budget
    /\ value \in {NoneV, AtomV(1)} \cup {ObjV(c) : c \in held}
                 \cup {RecV(q) : q \in {q \in Recs : Built(q)}}
                 \cup {fld[q][1] : q \in {q \in Recs : Built(q)}}
    /\ (RawMapping(World, value) /\ how = "ok") => NewRecs(cls) # {}
    /\ \E res \in {coerce(World, cls, value, how)} :
          /\ Fits(res.w)
          /\ Done(res.w, held)
          /\ cfg' = IF res.val.t = "rec" /\ ~Built(res.val.n)
                    THEN [cfg EXCEPT ![res.val.n].built = TRUE] ELSE cfg
          /\ last' = [Info("coerce", IF res.val.t = "rec" THEN res.val.n ELSE 0, 0, 0, res.w)
                         EXCEPT !.arg = value, !.res = res.val, !.cls = cls, !.how = how,
                                !.again = (res.val.t = "rec" /\ ~Built(res.val.n))]
    /\ UNCHANGED ent

InitCoerce ==
    InitWith({Cfg(b, lz, TRUE, DEFAULT_MAX_NESTING_DEPTH, "ok") : b, lz \in BOOLEAN}, CoerceOps)

NextCoerce ==
    \/ \E kind \in {"list", "dict"}, vals \in {<<>>, <<AtomV(1), AtomV(2)>>} : NewRaw(kind, vals)
    \/ \E r \in Recs, c \in ObjIds : Construct(r, ObjV(c))
    \/ \E cls \in Classes, how \in {"absent", "ok", "raises"},
          v \in {NoneV, AtomV(1)} \cup {ObjV(c) : c \in ObjIds} \cup {RecV(q) : q \in Recs} :
          Coerce(cls, v, how)

SpecCoerce == InitCoerce /\ [][NextCoerce]_vars

\* C21: coerce never raises; it returns None for None, the identical value for
\* an instance of the class and for a trackable collection, a new validated
\* instance of the class holding the mapping's values for a plain dict whose
\* validation succeeds, and the plain dict itself when its validation raises
C21_CoerceNeverRaises ==
    last.op = "coerce" =>
       /\ last.exc = "none"
       /\ last.arg = NoneV => last.res = NoneV
       /\ (last.arg.t = "rec" /\ cfg[last.arg.n].lazy = (last.cls = "lazy"))
          => last.res = last.arg
       /\ IsCollection(World, last.arg) => last.res = last.arg
       /\ (RawMapping(World, last.arg) /\ last.how = "raises") => last.res = last.arg
       /\ (RawMapping(World, last.arg) /\ last.how = "ok")
          => /\ last.res.t = "rec" /\ last.again
             /\ InstanceOf(last.res.n, last.cls)
             /\ \A f \in Fields :
                   IF f \in DOMAIN objs[last.arg.n].vals
                   THEN fld[last.res.n][f] = objs[last.arg.n].vals[f]
                   ELSE fld[last.res.n][f] = NoneV

\* a plain dict whose validation raised came back as it was
C21_Witness ==
    /\ last.op = "coerce"
    /\ RawMapping(World, last.arg) /\ last.how = "raises"
    /\ last.res = last.arg /\ last.exc = "none"

\* ------------------------------------------------------------- re-parenting
\* the position of an owner in an owner-link table (insertion order)
Pos(par, ref) == CHOOSE i \in DOMAIN par : par[i].ref = ref

\* container c, the value of field f of record b, was the value of a field of
\* another record before it was assigned to b.f
Reparented(c, b, f) ==
    /\ fld[b][f] = ObjV(c) /\ objs[c].wrapped
    /\ HasKey(objs[c].par, RecV(b))
    /\ \E a \in Recs \ {b} :
          /\ \E g \in Fields : fld[a][g] = ObjV(c)
          /\ HasKey(objs[c].par, RecV(a))
          /\ Pos(objs[c].par, RecV(a)) < Pos(objs[c].par, RecV(b))

\* C22: after a trackable container held in a field of record A was assigned
\* to a field of record B, a mutation of the container invokes B.changed(),
\* and B's field shows the new item
C22_ReparentedNotifiesNewOwner ==
    (last.op = "mutate" /\ last.r # 0 /\ Reparented(last.c, last.r, last.f))
    => /\ last.hook[last.r] >= 1
       /\ last.arg \in {objs[last.c].vals[i] : i \in DOMAIN objs[last.c].vals}

\* --------------------------------------------------------------------- lazy
\* Records of a lazy hashable host class are built with a raw collection,
\* read, assigned to, and pickled and unpickled into the second record.
LazyOps == 4

InitLazy ==
    /\ InitWith({Cfg(b, TRUE, TRUE, DEFAULT_MAX_NESTING_DEPTH, "ok") : b \in BOOLEAN}, LazyOps)
    /\ ~cfg[2].built

NextLazy ==
    \/ \E kind \in Kinds : NewRaw(kind, <<AtomV(1), AtomV(2)>>)
    \/ \E c \in ObjIds : Construct(1, ObjV(c))
    \/ \E r \in Recs : GetAttr(r, 1)
    \/ \E r \in Recs, c \in ObjIds : SetAttr(r, 1, ObjV(c), "dropArg")
    \/ Pickle(1, 2)
    \/ \E r \in Recs : Restore(r)

SpecLazy == InitLazy /\ [][NextLazy]_vars

\* the record of the last operation is in the owner-link table of container c
\* under the name of field f
LinkedUnder(c, r, f) ==
    \E i \in DOMAIN objs[c].par :
        objs[c].par[i] = [ref |-> RecV(r), key |-> NameKey(f)]

\* a read of a lazy record's field that holds a collection returns a trackable
\* container that is what the field now stores and is linked to the record
\* under the field name: a new one on the read that finds a raw collection,
\* the stored one on every later read
LazyReads ==
    (last.op = "getattr" /\ last.old.t = "obj")
    => /\ last.res.t = "obj" /\ objs[last.res.n].wrapped
       /\ fld[last.r][last.f] = last.res
       /\ LinkedUnder(last.res.n, last.r, last.f)
       /\ \/ last.res = last.old /\ last.fresh = {}
          \/ last.res # last.old /\ last.fresh = {last.res.n}

\* the field assigned to stores a trackable container linked to the record
\* under the field name
WrappedAtOnce ==
    /\ fld[last.r][last.f].t = "obj" /\ objs[fld[last.r][last.f].n].wrapped
    /\ LinkedUnder(fld[last.r][last.f].n, last.r, last.f)

KeyOps == 4

\* the calling code builds a raw list, dict or set that holds record q
NewRawOf(kind, q) ==
    /\ Budget
    /\ Built(q)
    /\ FreeIds(World) # {}
    /\ \E id \in {Lowest(FreeIds(World))} :
          /\ Done([World EXCEPT !.objs[id] = RawObj(kind, <<RecV(q)>>)], held \cup {id})
          /\ last' = Info("new", 0, 0, id, World)
    /\ UNCHANGED <<cfg, ent>>

InitKeys ==
    InitWith({Cfg(b, FALSE, TRUE, DEFAULT_MAX_NESTING_DEPTH, "ok") : b \in BOOLEAN}, KeyOps)

NextKeys ==
    \/ \E kind \in Kinds, vals \in RawLits : NewRaw(kind, vals)
    \/ \E kind \in Kinds, q \in Recs : NewRawOf(kind, q)
    \/ \E r \in Recs, c \in ObjIds : Construct(r, ObjV(c))
    \/ \E r \in Recs, f \in Fields, c \in ObjIds : SetAttr(r, f, ObjV(c), "dropArg")
    \/ \E r \in Recs, f \in Fields, q \in Recs : SetAttr(r, f, RecV(q), "plain")
    \/ \E r \in Recs, f \in Fields, q \in Recs, g \in Fields : SetAttrFrom(r, f, q, g)

SpecKeys == InitKeys /\ [][NextKeys]_vars

\* the owner ref stores value v at the position key: a record (or the record
\* of a token) in the field of that name, a list at that index, a dict under
\* that key, a set as a member with no key
StoresAt(ref, key, v) ==
    IF ref.t \in {"rec", "tok"}
    THEN key.t = "name" /\ key.n \in Fields /\ fld[ref.n][key.n] = v
    ELSE IF ref.t # "obj" THEN FALSE
    ELSE IF objs[ref.n].kind = "list"
         THEN key.t = "idx" /\ key.n + 1 \in DOMAIN objs[ref.n].vals
              /\ objs[ref.n].vals[key.n + 1] = v
    ELSE IF objs[ref.n].kind = "dict"
         THEN key.t = "name" /\ \E i \in DOMAIN objs[ref.n].vals :
                                   objs[ref.n].keys[i] = key.n /\ objs[ref.n].vals[i] = v
    ELSE objs[ref.n].kind = "set" /\ key = NoKey
         /\ \E i \in DOMAIN objs[ref.n].vals : objs[ref.n].vals[i] = v

\* the entries of a table that the step wrote
Written(old, new) == {e \in {new[i] : i \in DOMAIN new} : \A j \in DOMAIN old : old[j] # e}

\* C24: every owner-link entry written by a walk or an assignment has as key
\* a position at which the owner stores the value during the operation (when
\* it starts, for a value the walk finds in place, or when it ends, for a
\* value it stores): the field name in a record, the index in a list, the key
\* in a dict, no key in a set
C24_LinkKeyIsPosition ==
    [][/\ \A c \in ObjIds : \A e \in Written(objs[c].par, objs'[c].par) :
             StoresAt(e.ref, e.key, ObjV(c))' \/ StoresAt(e.ref, e.key, ObjV(c))
       /\ \A q \in Recs : \A e \in Written(rpar[q], rpar'[q]) :
             StoresAt(e.ref, e.key, RecV(q))' \/ StoresAt(e.ref, e.key, RecV(q))]_vars

\* a record that is a member of a trackable set is linked to it without a key,
\* and a record that is an item of a trackable list under its index
C24_Witness ==
    /\ \E q \in Recs : \E i \in DOMAIN rpar[q] :
          /\ rpar[q][i].ref.t = "obj" /\ rpar[q][i].key = NoKey
          /\ objs[rpar[q][i].ref.n].kind = "set" /\ objs[rpar[q][i].ref.n].wrapped
    /\ \E q \in Recs : \E i \in DOMAIN rpar[q] :
          /\ rpar[q][i].ref.t = "obj" /\ rpar[q][i].key.t = "idx"
          /\ objs[rpar[q][i].ref.n].kind = "list" /\ objs[rpar[q][i].ref.n].wrapped

\* ----------------------------------------------------------- nested mutation
\* every container below field f of record r is a trackable container
AllWrappedBelow(r, f) ==
    fld[r][f].t = "obj" /\ \A c \in Below(World, fld[r][f]) : objs[c].wrapped

\* C25: one mutation of a trackable container nested at any level below a
\* field of a record, every container on the way being trackable, invokes the
\* record's changed() exactly once
C25_NestedMutationNotifiesOnce ==
    (last.op = "mutate" /\ last.r # 0 /\ AllWrappedBelow(last.r, last.f)
        /\ cfg[last.r].maxDepth = DEFAULT_MAX_NESTING_DEPTH)
    => last.hook[last.r] = 1

\* ------------------------------------------------------- skipped attributes
SkipOps == 4

\* the last field name of every class matches the skip predicate
InitSkip ==
    InitWith({[Cfg(b, lz, TRUE, DEFAULT_MAX_NESTING_DEPTH, "ok") EXCEPT !.skip = {NumFields}]
              : b \in BOOLEAN, lz \in BOOLEAN}, SkipOps)

NextSkip ==
    \/ \E vals \in RawLits : NewRaw("list", vals)
    \/ \E r \in Recs, c \in ObjIds : Construct(r, ObjV(c))
    \/ \E r \in Recs, f \in Fields, c \in ObjIds, mode \in {"plain", "dropArg"} :
          SetAttr(r, f, ObjV(c), mode)
    \/ \E r \in Recs, f \in Fields, v \in {AtomV(1)} \cup {RecV(q) : q \in Recs} :
          SetAttr(r, f, v, "plain")
    \/ \E r \in Recs, f \in Fields : GetAttr(r, f)
    \/ \E r \in Recs : Restore(r)

SpecSkip == InitSkip /\ [][NextSkip]_vars

\* no owner-link table has an entry written for a skipped attribute
NoSkipLink ==
    \A r \in Recs : \A f \in cfg[r].skip :
        /\ \A c \in ObjIds : \A i \in DOMAIN objs[c].par :
              ~(objs[c].par[i].key = NameKey(f) /\ objs[c].par[i].ref \in {RecV(r), state(r)})
        /\ \A q \in Recs : \A i \in DOMAIN rpar[q] :
              ~(rpar[q][i].key = NameKey(f) /\ rpar[q][i].ref \in {RecV(r), state(r)})

\* C26: an assignment to an attribute that matches the skip predicate stores
\* the value as given, changes no container and no owner-link table and
\* invokes no hook; no other operation (walker, lazy read) replaces the value
\* of such an attribute or links it under that name
C26_SkippedAttrOutsideTracking ==
    [][/\ \A r \in Recs : \A f \in cfg[r].skip :
             IF last'.op = "setattr" /\ last'.r = r /\ last'.f = f
             THEN /\ fld'[r][f] = last'.arg
                  /\ \A c \in ObjIds : objs'[c] # FreeObj =>
                        /\ objs'[c].kind = objs[c].kind /\ objs'[c].wrapped = objs[c].wrapped
                        /\ objs'[c].keys = objs[c].keys /\ objs'[c].vals = objs[c].vals
                        /\ objs'[c].par = objs[c].par
                  /\ rpar' = rpar /\ pending' = pending
                  /\ last'.hook = ZeroCount /\ last'.dlv = ZeroCount
                  /\ last'.exc = "none" /\ last'.fresh = {}
             ELSE fld'[r][f] = fld[r][f]
       /\ NoSkipLink']_vars

\* a record whose skipped attribute holds a raw list has been scanned by the
\* walker, and the list is still raw
C26_Witness ==
    /\ last.op \in {"restore", "setattr"} /\ last.f # NumFields
    /\ \E r \in Recs :
          /\ NumFields \in cfg[r].skip /\ fld[r][NumFields].t = "obj"
          /\ ~objs[fld[r][NumFields].n].wrapped
          /\ objs[fld[r][NumFields].n].par = <<>>
          /\ (\E i \in DOMAIN last.desc : last.desc[i] = RecV(r)) \/ (last.op = "restore" /\ last.r = r)

\* ------------------------------------------------- everything below is tracked
\* container c is a trackable container whose owner-link table names ref
TrackedBy(c, ref) ==
    objs[c].wrapped /\ \E i \in DOMAIN objs[c].par : objs[c].par[i].ref = ref

\* C27: in every state of an eager record, every collection stored in a
\* scannable field, or stored as an item of a trackable container below such a
\* field, is a trackable container whose owner-link table contains its holder
C27_EverythingBelowIsTrackable ==
    \A r \in Recs : (Built(r) /\ ~cfg[r].lazy) =>
        \A f \in Fields : (~ignore_attr_name(r, f) /\ fld[r][f].t = "obj") =>
            /\ TrackedBy(fld[r][f].n, RecV(r))
            /\ \A c \in Below(World, fld[r][f]) : objs[c].wrapped =>
                  \A i \in DOMAIN objs[c].vals : objs[c].vals[i].t = "obj" =>
                      TrackedBy(objs[c].vals[i].n, ObjV(c))

\* ------------------------------------------------------- ownership cycles
Nodes == {ObjV(c) : c \in ObjIds} \cup {RecV(r) : r \in Recs}

\* the containers and records a value stores directly
Stored(v) ==
    IF v.t = "rec"
    THEN {fld[v.n][f] : f \in Fields} \cap Nodes
    ELSE {objs[v.n].vals[i] : i \in DOMAIN objs[v.n].vals} \cap Nodes

RECURSIVE Descendants(_)
Descendants(S) ==
    Val({ IF N = S THEN S ELSE Descendants(N)
        : N \in {S \cup UNION {Stored(v) : v \in S}} })

\* the owner an owner-link entry stands for: a token stands for its record
OwnerOf(ref) == IF ref.t = "tok" THEN RecV(ref.n) ELSE ref

\* the owner-link table of a record or container
TableOf(v) == IF v.t = "rec" THEN rpar[v.n] ELSE objs[v.n].par

\* C28: in every state, no owner-link table of a trackable value contains an
\* owner that is a descendant of that value
C28_OwnerLinksAcyclic ==
    \A v \in Nodes : \A i \in DOMAIN TableOf(v) :
        OwnerOf(TableOf(v)[i].ref) \notin Descendants(Stored(v))

\* ------------------------------------------------- termination of propagation
\* C29: no call of changed() / safe_changed keeps re-entering the hooks of a
\* value and its ancestors until the interpreter's recursion limit stops it:
\* every propagation visits each chain of owners once and returns
C29_PropagationTerminates == ~last.deep

\* ----------------------------------------------------------- failure ceiling
CeilOps == 5

\* the ceilings the application passes; the last one is the default
Ceilings == {1, 2, max_failures}

\* events.safe_changed(x, max_failures=lim) on a trackable value
Notify(x, lim) ==
    /\ Budget
    /\ \/ x.t = "rec" /\ Built(x.n)
       \/ x.t = "obj" /\ objs[x.n].wrapped
    /\ \E w \in {safe_changed_upto(World, x, lim, PropFuel)} :
          /\ Done(w, held)
          /\ last' = [Info("notify", 0, 0, 0, w) EXCEPT
                         !.arg = x, !.lim = lim, !.len = Len(ParentsOf(World, x))]
    /\ UNCHANGED <<cfg, ent>>

InitCeil ==
    InitWith({Cfg(b, FALSE, TRUE, DEFAULT_MAX_NESTING_DEPTH, h)
              : b \in BOOLEAN, h \in {"ok", "raise"}}, CeilOps)

NextCeil ==
    \/ \E vals \in RawLits : NewRaw("list", vals)
    \/ \E r \in Recs, c \in ObjIds : Construct(r, ObjV(c))
    \/ \E r \in Recs, c \in ObjIds : SetAttr(r, 1, ObjV(c), "dropArg")
    \/ \E r \in Recs : SetAttr(r, 1, AtomV(1), "keepOld")
    \/ \E x \in Nodes, lim \in Ceilings : Notify(x, lim)

SpecCeil == InitCeil /\ [][NextCeil]_vars

MaxOf(S) == CHOOSE i \in S : \A j \in S : j <= i

\* C30: within one safe_changed call the number of owner deliveries counted
\* as failed never exceeds the ceiling, and once it equals the ceiling the
\* last entry of the snapshot the loop processed is the one whose failure
\* reached it: no later owner is invoked
C30_FailureCeilingStopsDelivery ==
    last.op = "notify" =>
        /\ Cardinality(last.failed) <= last.lim
        /\ Cardinality(last.failed) = last.lim => last.ran = MaxOf(last.failed)

\* the second failure reached a ceiling of 2 while entries of the snapshot
\* were still waiting
C30_Witness ==
    /\ last.op = "notify"
    /\ last.lim = 2 /\ Cardinality(last.failed) = last.lim
    /\ last.ran < last.len

\* ------------------------------------------------------------ snapshot race
RaceOps == 4

\* which of the snapshot attempts of one call meet a concurrent structural
\* modification of the table (list(self._parents.items()) raises RuntimeError)
Schedules == [1..max_retries -> BOOLEAN]

RECURSIVE take_snapshot(_, _, _)

\* a loop that gives up after the first failed attempt
take_snapshot_once(races, retry, retries) == [ok |-> ~races[1], tries |-> 1]

\* `for retry in range(max_retries): try: parents_snapshot = list(...); break
\*  except RuntimeError: if retry == max_retries - 1: return; continue`
take_snapshot(races, retry, retries) ==
    IF retry >= retries THEN [ok |-> FALSE, tries |-> retry]
    ELSE IF ~races[retry + 1] THEN [ok |-> TRUE, tries |-> retry + 1]
    ELSE IF retry = retries - 1 THEN [ok |-> FALSE, tries |-> retry + 1]
    ELSE take_snapshot(races, retry + 1, retries)

\* events.safe_changed(self) while another thread modifies self._parents as
\* the schedule says; a failed snapshot ends the call
safe_changed_racing(w, x, races, fuel) ==
    Val({ IF ~s.ok THEN [w EXCEPT !.tries = s.tries]
          ELSE notify_parents([w EXCEPT !.tries = s.tries], ParentsOf(w, x), 1, 0, fuel - 1)
        : s \in {take_snapshot(races, 0, max_retries)} })

\* a mutator of a Keyable container: the change is applied, then changed()
mutate_racing(w, c, k, v, races) ==
    safe_changed_racing([w EXCEPT !.objs[c] = Insert(@, k, v)], ObjV(c), races, PropFuel)

\* a mutation of a trackable container below a field while the table races
MutateRacing(r, name, c, races) ==
    /\ Budget
    /\ Built(r)
    /\ fld[r][name].t = "obj"
    /\ MutArgs(c, 0, AtomV(3))
    /\ c \in Below(World, fld[r][name])
    /\ objs[c].wrapped
    /\ \E w \in {mutate_racing(World, c, 0, AtomV(3), races)} :
          /\ Done(w, held)
          /\ last' = [Info("race", r, name, c, w) EXCEPT !.arg = AtomV(3), !.races = races]
    /\ UNCHANGED <<cfg, ent>>

InitRace ==
    InitWith({Cfg(b, FALSE, TRUE, DEFAULT_MAX_NESTING_DEPTH, "ok") : b \in BOOLEAN}, RaceOps)

NextRace ==
    \/ \E kind \in Kinds, vals \in RawLits : NewRaw(kind, vals)
    \/ \E r \in Recs, c \in ObjIds : Construct(r, ObjV(c))
    \/ \E r \in Recs, c \in ObjIds : SetAttr(r, 1, ObjV(c), "dropArg")
    \/ \E r \in Recs, c \in ObjIds, races \in Schedules : MutateRacing(r, 1, c, races)

SpecRace == InitRace /\ [][NextRace]_vars

\* the attempts a schedule allows: up to the first one that does not race
FirstClean(races) ==
    IF \A i \in DOMAIN races : races[i] THEN max_retries
    ELSE CHOOSE i \in DOMAIN races : ~races[i] /\ \A j \in 1..(i - 1) : races[j]

\* C31: safe_changed makes one snapshot attempt after the other until one
\* does not race, at most max_retries in total; when every attempt raced it
\* invokes no owner and raises nothing, and the mutation that triggered it is
\* applied to the container
C31_SnapshotRetriesBounded ==
    last.op = "race" =>
        /\ last.tries <= max_retries
        /\ last.tries = FirstClean(last.races)
        /\ \E i \in DOMAIN objs[last.c].vals : objs[last.c].vals[i] = last.arg
        /\ (\A i \in DOMAIN last.races : last.races[i]) =>
              /\ last.hook = ZeroCount /\ last.dlv = ZeroCount /\ last.flag = 0
              /\ last.fails = 0 /\ last.exc = "none"

\* every attempt raced on a container that has an owner
C31_Witness ==
    /\ last.op = "race"
    /\ \A i \in DOMAIN last.races : last.races[i]
    /\ last.tries = max_retries
    /\ objs[last.c].par # <<>>

\* ------------------------------------------------------ identity token race
TokenOps == 5

\* the MutableState that thread k created for record r
ThreadTok(r, k) == [t |-> "tok", n |-> r, by |-> k]

\* a step of a thread: nothing but thr, inst and the named table changes
ThreadStep(op, t) ==
    /\ ops' = ops - 1
    /\ last' = [Info(op, thr[t].r, 0, 0, World) EXCEPT !.pre = t]
    /\ UNCHANGED <<fld, rpar, level, pending, cfg, ent, held, stack>>

\* MutableMethods._state, first half: object.__getattribute__(self,
\* "_state_inst") returns the stored token or raises AttributeError
StateRead(t, r) ==
    /\ Budget
    /\ Built(r)
    /\ thr[t].pc = "idle"
    /\ thr' = [thr EXCEPT ![t] = IF inst[r] # 0
                                 THEN [pc |-> "got", r |-> r, reg |-> inst[r]]
                                 ELSE [pc |-> "missed", r |-> r, reg |-> 0]]
    /\ UNCHANGED <<inst, objs>>
    /\ ThreadStep("state_read", t)

\* MutableMethods._state, second half: val = MutableState(self);
\* object.__setattr__(self, "_state_inst", val); return val
StateStore(t) ==
    /\ Budget
    /\ thr[t].pc = "missed"
    /\ inst' = [inst EXCEPT ![thr[t].r] = t]
    /\ thr' = [thr EXCEPT ![t] = [pc |-> "got", r |-> thr[t].r, reg |-> t]]
    /\ UNCHANGED objs
    /\ ThreadStep("state_store", t)

\* the caller of _state in __setattr__: wrapped_value._parents[self._state] = name
StateLink(t, c) ==
    /\ Budget
    /\ thr[t].pc = "got"
    /\ objs[c].wrapped
    /\ objs' = [objs EXCEPT ![c].par = PutLink(@, ThreadTok(thr[t].r, thr[t].reg), NameKey(1))]
    /\ thr' = [thr EXCEPT ![t] = Idle]
    /\ UNCHANGED inst
    /\ ThreadStep("state_link", t)

InitToken ==
    InitWith({Cfg(b, FALSE, TRUE, DEFAULT_MAX_NESTING_DEPTH, "ok") : b \in BOOLEAN}, TokenOps)

NextToken ==
    \/ \E vals \in RawLits : NewRaw("list", vals)
    \/ \E r \in Recs, c \in ObjIds : Construct(r, ObjV(c))
    \/ \E t \in Threads, r \in Recs : StateRead(t, r)
    \/ \E t \in Threads : StateStore(t)
    \/ \E t \in Threads, c \in ObjIds : StateLink(t, c)

SpecToken == InitToken /\ [][NextToken]_vars

\* C32: every access to _state of a record yields the token the record
\* stores: a thread that holds a token of record r holds the one in
\* _state_inst, and every owner-link entry registered under a token of r is
\* registered under the one r holds
C32_OneTokenPerOwner ==
    /\ \A t \in Threads : thr[t].pc = "got" => inst[thr[t].r] = thr[t].reg
    /\ \A c \in ObjIds : \A i \in DOMAIN objs[c].par :
          \A r \in Recs, k \in Threads :
              objs[c].par[i].ref = ThreadTok(r, k) => inst[r] = k


\* C33: when the body of the outermost scope of a record raised after a change
\* of the record was deferred, the exit clears the pending flag, runs the
\* record's propagation exactly once and raises nothing of its own, so the
\* body's exception continues to the caller
C33_RaisingBodyStillDelivers ==
    (Exited /\ last.raising /\ last.pre = 0 /\ last.muts >= 1) =>
        /\ ~pending[last.r]
        /\ last.dlv[last.r] = 1
        /\ last.exc = "none"


\* C34: the exit of a batch_changes() scope runs the record's propagation at
\* most once, and not at all when the pending flag is false at that moment or
\* the level stays above 0
C34_ExitDeliversAtMostOnce ==
    last.op = "exit" =>
        /\ last.dlv[last.r] <= 1
        /\ (~last.pend \/ level[last.r] > 0) =>
              last.dlv[last.r] = 0 /\ last.hook = ZeroCount


\* the scopes of record r that are open and were opened after its last restore
ScopesSinceRestore(r) == {i \in DOMAIN stack : stack[i].r = r /\ ~stack[i].reset}

ThreadOps == 11

\* one statement of a thread inside batch_change_suppression or changed():
\* the interpreter may switch threads between any two of them
BatchStep(op, t, r, pc, reg, w) ==
    /\ Budget
    /\ Built(r)
    /\ thr' = [thr EXCEPT ![t] = IF pc = "idle" THEN Idle
                                 ELSE [pc |-> pc, r |-> r, reg |-> reg]]
    /\ CommitHeap(w, held)
    /\ ops' = ops - 1
    /\ last' = [Info(op, r, 0, 0, w) EXCEPT !.pre = t]
    /\ UNCHANGED <<cfg, ent, stack, inst>>

\* current_level = getattr(instance, "_change_suppress_level", 0)
BatchRead(t, r) ==
    /\ thr[t].pc = "idle"
    /\ BatchStep("batch_read", t, r, "entering", level[r], World)

\* object.__setattr__(instance, "_change_suppress_level", current_level + 1),
\* then the yield: the body of the with statement runs
BatchWrite(t) ==
    /\ thr[t].pc = "entering"
    /\ BatchStep("batch_write", t, thr[t].r, "inside", 0,
                 [World EXCEPT !.lvl[thr[t].r] = thr[t].reg + 1])

\* mark_change_or_defer: suppress_level = getattr(instance,
\* "_change_suppress_level", 0), called by changed() from the body of the
\* thread's own scope or by a thread that has no scope open
ChangedRead(t, r) ==
    /\ \/ thr[t].pc = "idle"
       \/ thr[t].pc = "inside" /\ thr[t].r = r
    /\ BatchStep("changed_read", t, r,
                 IF thr[t].pc = "inside" THEN "chg_in" ELSE "chg_out", level[r], World)

\* mark_change_or_defer and BaseMutableMixin.changed after the read: set the
\* flag and return, or go on to super().changed()
ChangedAct(t) ==
    /\ thr[t].pc \in {"chg_in", "chg_out"}
    /\ \E r \in {thr[t].r} :
          BatchStep("changed_act", t, r,
                    IF thr[t].pc = "chg_in" THEN "inside" ELSE "idle", 0,
                    IF thr[t].reg > 0
                    THEN [World EXCEPT !.hook[r] = Bump(@), !.pend[r] = TRUE]
                    ELSE safe_changed([World EXCEPT !.hook[r] = Bump(@)], RecV(r), PropFuel))

\* finally: getattr(instance, "_change_suppress_level", 1)
ExitRead(t) ==
    /\ thr[t].pc = "inside"
    /\ BatchStep("exit_read", t, thr[t].r, "exiting", level[thr[t].r], World)

\* new_level = max(0, ... - 1); object.__setattr__(instance,
\* "_change_suppress_level", new_level); if new_level == 0
ExitWrite(t) ==
    /\ thr[t].pc = "exiting"
    /\ \E new_level \in {Max(0, thr[t].reg - 1)} :
          BatchStep("exit_write", t, thr[t].r,
                    IF new_level = 0 THEN "check" ELSE "idle", 0,
                    [World EXCEPT !.lvl[thr[t].r] = new_level])

\* is_pending = getattr(instance, "_pending_change", False); if is_pending
ExitCheck(t) ==
    /\ thr[t].pc = "check"
    /\ BatchStep("exit_check", t, thr[t].r,
                 IF pending[thr[t].r] THEN "clear" ELSE "idle", 0, World)

\* object.__setattr__(instance, "_pending_change", False)
ExitClear(t) ==
    /\ thr[t].pc = "clear"
    /\ BatchStep("exit_clear", t, thr[t].r, "deliver", 0,
                 [World EXCEPT !.pend[thr[t].r] = FALSE])

\* safe_changed(instance)
ExitDeliver(t) ==
    /\ thr[t].pc = "deliver"
    /\ BatchStep("exit_deliver", t, thr[t].r, "idle", 0,
                 safe_changed(World, RecV(thr[t].r), PropFuel))

InitThreads ==
    InitWith({Cfg(TRUE, FALSE, TRUE, DEFAULT_MAX_NESTING_DEPTH, "ok")}, ThreadOps)

NextThreads ==
    \/ \E t \in Threads, r \in Recs : BatchRead(t, r)
    \/ \E t \in Threads : BatchWrite(t)
    \/ \E t \in Threads, r \in Recs : ChangedRead(t, r)
    \/ \E t \in Threads : ChangedAct(t)
    \/ \E t \in Threads : ExitRead(t)
    \/ \E t \in Threads : ExitWrite(t)
    \/ \E t \in Threads : ExitCheck(t)
    \/ \E t \in Threads : ExitClear(t)
    \/ \E t \in Threads : ExitDeliver(t)

SpecThreads == InitThreads /\ [][NextThreads]_vars

\* the body of thread u's scope on record r is running
BodyRunning(u, r) == thr[u].r = r /\ thr[u].pc \in {"inside", "chg_in"}

\* thread u is between the first statement of a scope on r and its last
InScope(u, r) == thr[u].r = r /\ thr[u].pc \notin {"idle", "chg_out"}

\* the last step delivered a notification, and the thread that took it was
\* leaving a scope or running the body of one
DeliveredFromScope ==
    /\ last.op \in {"exit_deliver", "changed_act"}
    /\ last.dlv[last.r] >= 1
    /\ last.op = "changed_act" => thr[last.pre].pc = "inside"

\* C36: with two threads opening and closing scopes on a record, no
\* notification of the record is delivered while the body of a scope on it is
\* still running, and the level is 0 when no thread is in a scope on it
C36_ThreadedScopesSuppress ==
    \A r \in Recs :
        /\ (DeliveredFromScope /\ last.r = r) => ~\E u \in Threads : BodyRunning(u, r)
        /\ (~\E u \in Threads : InScope(u, r)) => level[r] = 0


\* no thread is inside a library call on record r
Quiet(r) == \A u \in Threads : thr[u].r = r => thr[u].pc = "inside"

\* C37: whatever the interleaving of a thread that calls changed() with a
\* thread that leaves the scope, once both calls have returned the record is
\* not left with the pending flag set and level 0
C37_DeferredChangeNotLost ==
    \A r \in Recs : Quiet(r) => ~(pending[r] /\ level[r] = 0)


\* ------------------------------------------------------------ a shared container and one record's scope
ScopedOps == 5

InitScoped ==
    InitWith({Cfg(b, FALSE, TRUE, DEFAULT_MAX_NESTING_DEPTH, "ok") : b \in BOOLEAN}, ScopedOps)

NextScoped ==
    \/ \E vals \in {<<>>, <<AtomV(1), AtomV(2)>>} : NewRaw("list", vals)
    \/ \E r \in Recs, c \in ObjIds : Construct(r, ObjV(c))
    \/ \E r \in Recs, c \in ObjIds : SetAttr(r, 1, ObjV(c), "dropArg")
    \/ \E r \in Recs, q \in Recs : SetAttrFrom(r, 1, q, 1)
    \/ \E r \in Recs, c \in ObjIds : MutateField(r, 1, c, 0, AtomV(3))
    \/ \E r \in Recs : EnterBatch(r)
    \/ \E raising \in BOOLEAN : ExitBatch(raising)

SpecScoped == InitScoped /\ [][NextScoped]_vars

\* C38: a mutation of a container that is the field value of both records,
\* made while record a is inside batch_changes() and record b is not, delivers
\* b's notification at once and defers a's; b's level and pending flag stay
\* as they were
C38_SuppressionIsPerRecord ==
    \A a, b \in Recs :
        (/\ last.op = "mutate" /\ objs[last.c].wrapped
         /\ SharedBy(last.c) = Recs
         /\ level[a] > 0 /\ level[b] = 0)
        => /\ last.dlv[b] = 1
           /\ last.dlv[a] = 0 /\ pending[a]
           /\ ~pending[b]


\* ------------------------------------------------------------ replaced field values
DetachOps == 5

InitDetach == InitWith({Cfg(TRUE, FALSE, TRUE, DEFAULT_MAX_NESTING_DEPTH, "ok")}, DetachOps)

NextDetach ==
    \/ \E vals \in RawLits : NewRaw("list", vals)
    \/ \E r \in Recs, mode \in {"plain", "keepOld"}, v \in {AtomV(1)} \cup {ObjV(c) : c \in ObjIds} :
          SetAttr(r, 1, v, mode)
    \/ \E r \in Recs, q \in Recs : SetAttrFrom(r, 1, q, 1)
    \/ \E c \in ObjIds : Mutate(c, 0, AtomV(3))

SpecDetach == InitDetach /\ [][NextDetach]_vars

\* record r is registered as an owner of container c and holds it in no field
Detached(c, r) ==
    /\ objs[c].wrapped
    /\ HasKey(objs[c].par, RecV(r))
    /\ \A f \in Fields : fld[r][f] # ObjV(c)

\* C39: an assignment that replaces a container held in a field by a different
\* value leaves the owner-link table of the old container as it was, and a
\* mutation of a container that a record is registered on but no longer holds
\* invokes the record's changed()
C39_ReplacedValueKeepsOwner ==
    [][/\ (/\ last'.op = "setattr" /\ last'.old.t = "obj"
           /\ last'.res # last'.old
           /\ objs'[last'.old.n].kind # "free")
          => objs'[last'.old.n].par = objs[last'.old.n].par
       /\ \A r \in Recs :
             (last'.op = "mutate" /\ Detached(last'.c, r)) => last'.hook[r] >= 1]_vars


\* C40: a read of a field of a lazy record, the wrapping first read included,
\* invokes no changed() hook, delivers no notification and leaves the level
\* and the pending flag of every record as they were
C40_LazyReadIsSilent ==
    [][last'.op = "getattr" =>
          /\ last'.hook = ZeroCount /\ last'.dlv = ZeroCount
          /\ level' = level /\ pending' = pending]_vars

====
